---- MODULE Spec2Model ----
(***************************************************************************)
(* Upstream aggregation and query-result cache of the basin monitoring     *)
(* service: the upstream_aggregate endpoint (monitoring/api/views.py), the *)
(* cache key codec and cache wrappers (monitoring/cache_utils.py) and the  *)
(* tables they read (monitoring/models.py).                                *)
(*                                                                         *)
(* Time is in seconds.  Decimal values (DecimalField, 4 decimal places)    *)
(* are integers counting ten-thousandths.  Strings the code inspects,      *)
(* composes or compares character by character (query parameters, basin    *)
(* identifiers, data type names, cache keys) are sequences of              *)
(* one-character strings.                                                  *)
(***************************************************************************)
EXTENDS Integers, Sequences, FiniteSets, TLC

----------------------------------------------------------------------------
(* Bounds of the model *)

NumBasins == 3
MaxEdges == 3
MaxObs == 2
MaxRequests == 3
MaxNow == 450
TickStep == 150
MaxRows == 3

(* Program constants *)

UP_TTL == 300
TS_TTL == 300
SecondsPerHour == 3600
DecimalPlaces == 4
KeyLimit == 200

----------------------------------------------------------------------------
(* Python values *)

None == <<>>
Some(x) == <<x>>

Digits == {"0", "1", "2", "3", "4", "5", "6", "7", "8", "9"}

DigitVal(c) ==
    CASE c = "0" -> 0 [] c = "1" -> 1 [] c = "2" -> 2 [] c = "3" -> 3
      [] c = "4" -> 4 [] c = "5" -> 5 [] c = "6" -> 6 [] c = "7" -> 7
      [] c = "8" -> 8 [] c = "9" -> 9

RECURSIVE DigitsVal(_)
DigitsVal(s) ==
    IF s = <<>> THEN 0
    ELSE 10 * DigitsVal(SubSeq(s, 1, Len(s) - 1)) + DigitVal(s[Len(s)])

AllDigits(s) == s # <<>> /\ \A i \in 1..Len(s) : s[i] \in Digits

(* int(s) on a string: an optional sign and at least one digit give         *)
(* Some(value); anything else raises ValueError, modelled as None.          *)
PyInt(s) ==
    IF s # <<>> /\ s[1] \in {"-", "+"}
    THEN IF AllDigits(Tail(s))
         THEN Some(IF s[1] = "-" THEN 0 - DigitsVal(Tail(s)) ELSE DigitsVal(Tail(s)))
         ELSE None
    ELSE IF AllDigits(s) THEN Some(DigitsVal(s)) ELSE None

(* str(n) for an int n *)
DigitChar(d) == <<"0", "1", "2", "3", "4", "5", "6", "7", "8", "9">>[d + 1]

RECURSIVE NatChars(_)
NatChars(n) == IF n < 10 THEN <<DigitChar(n)>> ELSE NatChars(n \div 10) \o <<DigitChar(n % 10)>>

IntChars(n) == IF n < 0 THEN <<"-">> \o NatChars(0 - n) ELSE NatChars(n)

(* str.lower(), character by character *)
LowerChar(c) ==
    CASE c = "A" -> "a" [] c = "B" -> "b" [] c = "C" -> "c" [] c = "D" -> "d"
      [] c = "E" -> "e" [] c = "F" -> "f" [] c = "G" -> "g" [] c = "H" -> "h"
      [] c = "I" -> "i" [] c = "J" -> "j" [] c = "K" -> "k" [] c = "L" -> "l"
      [] c = "M" -> "m" [] c = "N" -> "n" [] c = "O" -> "o" [] c = "P" -> "p"
      [] c = "Q" -> "q" [] c = "R" -> "r" [] c = "S" -> "s" [] c = "T" -> "t"
      [] c = "U" -> "u" [] c = "V" -> "v" [] c = "W" -> "w" [] c = "X" -> "x"
      [] c = "Y" -> "y" [] c = "Z" -> "z" [] OTHER -> c

Lower(s) == [i \in 1..Len(s) |-> LowerChar(s[i])]

(* s.startswith(prefix) *)
StartsWith(s, prefix) == Len(s) >= Len(prefix) /\ SubSeq(s, 1, Len(prefix)) = prefix

(* A Decimal: `units` counts 10^-places.  Decimal("0") has no fractional    *)
(* digits; a value read from a DecimalField column has DecimalPlaces.       *)
Decimal(units, places) == [units |-> units, places |-> places]

DecimalZero == Decimal(0, 0)

RECURSIVE Pow10(_)
Pow10(n) == IF n = 0 THEN 1 ELSE 10 * Pow10(n - 1)

Abs(v) == IF v < 0 THEN 0 - v ELSE v

RECURSIVE Pad(_, _)
Pad(n, width) ==
    IF width = 0 THEN ""
    ELSE Pad(n \div 10, width - 1) \o ToString(n % 10)

(* str(d) for a Decimal d *)
DecimalStr(d) ==
    (IF d.units < 0 THEN "-" ELSE "")
        \o ToString(Abs(d.units) \div Pow10(d.places))
        \o (IF d.places = 0 THEN ""
            ELSE "." \o Pad(Abs(d.units) % Pow10(d.places), d.places))

(* `x or Decimal("0")`: None and a zero Decimal are both falsy *)
OrDecimalZero(x) == IF x = None \/ x[1].units = 0 THEN DecimalZero ELSE x[1]

----------------------------------------------------------------------------
(* Tables (monitoring/models.py) *)

(* Basin.id, the internal primary key *)
Basins == 1..NumBasins

(* Basin.basin_id, the unique external identifier *)
basin_id(b) == <<"B">> \o IntChars(b)

RELATION_TYPE_UPSTREAM == "upstream_to_downstream"

RelationTypes == {RELATION_TYPE_UPSTREAM, "other"}

(* BasinRelation rows; a set of these records satisfies the unique         *)
(* constraint on (from_basin, to_basin, relation_type).                     *)
BasinRelation == [from_basin : Basins, to_basin : Basins, relation_type : RelationTypes]

(* DataType rows, by name *)
Rainfall == <<"R", "a", "i", "n", "f", "a", "l", "l">>
Temperature == <<"T", "e", "m", "p", "e", "r", "a", "t", "u", "r", "e">>

DataTypes == {Rainfall, Temperature}

Sources == {"sensor_01", "sensor_02"}

(* Observation rows *)
Observation(b, dt, t, src, v) ==
    [basin |-> b, data_type |-> dt, datetime |-> t, source |-> src, value |-> v]

(* The unique constraint on (basin, data_type, datetime, source) *)
SameObservationKey(o, p) ==
    /\ o.basin = p.basin
    /\ o.data_type = p.data_type
    /\ o.datetime = p.datetime
    /\ o.source = p.source

(* INSERT ... ON DUPLICATE KEY UPDATE value = VALUES(value), and           *)
(* update_or_create: the row with o's key holds o's value afterwards.       *)
Upsert(store, o) == {p \in store : ~SameObservationKey(o, p)} \cup {o}

RECURSIVE SumValues(_)
SumValues(rows) ==
    IF rows = {} THEN 0
    ELSE LET o == CHOOSE o \in rows : TRUE
         IN  o.value + SumValues(rows \ {o})

(* .aggregate(total=Sum("value"))["total"]: None over no rows *)
AggregateSum(rows) ==
    IF rows = {} THEN None ELSE Some(Decimal(SumValues(rows), DecimalPlaces))

(* DataType.objects.get(name__iexact=name): None stands for DoesNotExist *)
DataTypeGet(name) ==
    LET found == {dt \in DataTypes : Lower(dt) = Lower(name)}
    IN  IF found = {} THEN None ELSE Some(CHOOSE dt \in found : TRUE)

----------------------------------------------------------------------------
(* Cache key codec (monitoring/cache_utils.py) *)

(* The window literals the invalidation enumerates *)
W24h == <<"2", "4", "h">>
W48h == <<"4", "8", "h">>
W168h == <<"1", "6", "8", "h">>

(* The family prefixes *)
UP_PREFIX == <<"u", "p", "s", "t", "r", "e", "a", "m", "_", "a", "g", "g", ":">>
TS_PREFIX == <<"t", "i", "m", "e", "s", "e", "r", "i", "e", "s", ":">>

upstream_key(bid, data_type, window, depth) ==
    UP_PREFIX \o bid \o <<":">> \o data_type
        \o <<":">> \o window \o <<":", "d">> \o IntChars(depth)

(* The token a missing bound is replaced by *)
Auto == <<"a", "u", "t", "o">>

(* s.replace(" ", "T") *)
ReplaceSpaceByT(s) == [i \in 1..Len(s) |-> IF s[i] = " " THEN "T" ELSE s[i]]

(* s.split(".")[0]: the characters before the first dot *)
SplitDotFirst(s) ==
    LET dots == {i \in 1..Len(s) : s[i] = "."}
    IN  IF dots = {} THEN s
        ELSE SubSeq(s, 1, (CHOOSE i \in dots : \A j \in dots : i <= j) - 1)

(* _normalize_iso(s): `not s` holds of None and of the empty string *)
normalize_iso(s) == IF s = <<>> THEN Auto ELSE SplitDotFirst(ReplaceSpaceByT(s))

(* hashlib.sha1(key.encode()).hexdigest()[:16].  SHA-1 itself is not        *)
(* computed: the digest is a deterministic function of the key's characters *)
(* that yields 16 hexadecimal characters (a position-weighted checksum of   *)
(* 16 bits, written four times).                                            *)
RECURSIVE Checksum(_, _, _)
Checksum(s, lo, hi) ==
    LET Alphabet ==
        <<"0", "1", "2", "3", "4", "5", "6", "7", "8", "9", "a", "b", "c", "d",
        "e", "f", "g", "h", "i", "j", "k", "l", "m", "n", "o", "p", "q", "r",
        "s", "t", "u", "v", "w", "x", "y", "z", "A", "B", "C", "D", "E", "F",
        "G", "H", "I", "J", "K", "L", "M", "N", "O", "P", "Q", "R", "S", "T",
        "U", "V", "W", "X", "Y", "Z", ":", "-", "_", ".", "+", " ">>
        I(c) == {i \in DOMAIN Alphabet : Alphabet[i] = c}
        CharCode(c) == IF I(c) = {} THEN 0 ELSE CHOOSE i \in I(c) : TRUE
        mid == (lo + hi) \div 2
    IN  IF lo > hi THEN 0
        ELSE IF lo = hi THEN CharCode(s[lo]) * ((lo % 7) + 1)
        ELSE Checksum(s, lo, mid) + Checksum(s, mid + 1, hi)

Sha1Hex16(key) ==
    LET h == Checksum(key, 1, Len(key)) % 65536
        HexChar(d) == <<"0", "1", "2", "3", "4", "5", "6", "7",
                        "8", "9", "a", "b", "c", "d", "e", "f">>[d + 1]
        four == <<HexChar(h \div 4096), HexChar((h \div 256) % 16),
                  HexChar((h \div 16) % 16), HexChar(h % 16)>>
    IN  four \o four \o four \o four

timeseries_key(bid, data_type, start_iso, end_iso, resolution) ==
    LET s == normalize_iso(start_iso)
        e == normalize_iso(end_iso)
        key == TS_PREFIX \o bid \o <<":">> \o data_type \o <<":">> \o resolution
                    \o <<":">> \o s \o <<":">> \o e
    IN  IF Len(key) > KeyLimit
        THEN TS_PREFIX \o <<"h", "a", "s", "h", ":">> \o Sha1Hex16(key)
        ELSE key

----------------------------------------------------------------------------
(* State *)

VARIABLES
    relations,      \* the BasinRelation table
    observations,   \* the Observation table
    cache,          \* the Result Cache: key -> [payload, expiry, stored_at]
    now,            \* the clock, in seconds
    nreq,           \* requests started so far
    req,            \* per request: the handler's position and local variables
    hist,           \* per request: what the handler has read and enqueued
    ingest,         \* the ingestion command: its position, locals and counters
    api             \* direct calls of the cache helpers: the last call and
                    \* its outcome, and the latest store per key

vars == <<relations, observations, cache, now, nreq, req, hist, ingest, api>>

Reqs == {1}

----------------------------------------------------------------------------
(* Result Cache backend, as seen through django.core.cache.cache *)

(* An entry is live until its expiry; timeout None never expires *)
Live(entry, t) == entry.expiry = None \/ t < entry.expiry[1]

(* cache.get(key): the payload of a live entry, else None *)
CacheGet(c, key, t) ==
    IF key \in DOMAIN c /\ Live(c[key], t) THEN Some(c[key].payload) ELSE None

(* cache.set(key, payload, timeout) at time t *)
CacheSet(c, key, payload, timeout, t) ==
    [k \in DOMAIN c \cup {key} |->
        IF k = key
        THEN [payload |-> payload,
              expiry |-> IF timeout = None THEN None ELSE Some(t + timeout[1]),
              stored_at |-> t]
        ELSE c[k]]

(* cache.delete(key) *)
CacheDelete(c, key) == [k \in DOMAIN c \ {key} |-> c[k]]

EmptyCache == [k \in {} |-> None]

(* A timeout that is never applied: the entry is stored without expiry *)
UpstreamTimeoutNever(ttl) == None

(* `ttl or UP_TTL` *)
UpstreamTimeout(ttl) == IF ttl = None \/ ttl[1] = 0 THEN Some(UP_TTL) ELSE ttl

get_upstream_cache(bid, data_type, window, depth) ==
    CacheGet(cache, upstream_key(bid, data_type, window, depth), now)

(* A store that normalises the data type name the lookup does not *)
set_upstream_cache_lower(bid, data_type, window, depth, payload, ttl) ==
    CacheSet(cache, upstream_key(bid, Lower(data_type), window, depth), payload,
             UpstreamTimeout(ttl), now)

(* A store that leaves an entry already held under the key as it is *)
set_upstream_cache_keep(bid, data_type, window, depth, payload, ttl) ==
    IF upstream_key(bid, data_type, window, depth) \in DOMAIN cache THEN cache
    ELSE CacheSet(cache, upstream_key(bid, data_type, window, depth), payload,
                  UpstreamTimeout(ttl), now)

set_upstream_cache(bid, data_type, window, depth, payload, ttl) ==
    CacheSet(cache, upstream_key(bid, data_type, window, depth), payload,
             UpstreamTimeout(ttl), now)

(* `ttl or TS_TTL` *)
TimeseriesTimeout(ttl) == IF ttl = None \/ ttl[1] = 0 THEN Some(TS_TTL) ELSE ttl

get_timeseries_cache(bid, data_type, start_iso, end_iso, resolution) ==
    CacheGet(cache, timeseries_key(bid, data_type, start_iso, end_iso, resolution), now)

set_timeseries_cache(bid, data_type, start_iso, end_iso, resolution, payload, ttl) ==
    CacheSet(cache, timeseries_key(bid, data_type, start_iso, end_iso, resolution),
             payload, TimeseriesTimeout(ttl), now)

----------------------------------------------------------------------------
(* Direct calls of the cache helpers (monitoring/cache_utils.py) *)

NoCall == [fn |-> "none"]

(* `sets` maps a key to the arguments, payload, TTL and time of the latest   *)
(* store made under it by a direct call, `nsets` counts those stores.        *)
NoApi == [last |-> NoCall, sets |-> [k \in {} |-> None], nsets |-> 0]

----------------------------------------------------------------------------
(* upstream_aggregate (monitoring/api/views.py): the handler's locals *)

Response(status, data) == [status |-> status, data |-> data]

(* An exception that leaves the view: the framework answers 500 *)
Unhandled(exc) == Response(500, [exception |-> exc])

NoResponse == Response(0, [none |-> TRUE])

IdleReq ==
    [pc |-> "idle", basin |-> 0, data_type_name |-> "", window |-> <<>>,
     depth |-> 0, hours |-> 0, cutoff |-> 0, dt |-> "",
     queue |-> <<>>, visited |-> {}, upstream_ids |-> {},
     basin_sum |-> DecimalZero, upstream_sum |-> DecimalZero,
     payload |-> None, response |-> NoResponse]

NoHist ==
    [started_at |-> 0, lookup |-> "none", cache_hit |-> None, cache_stored |-> None,
     graph_reads |-> 0, store_reads |-> 0,
     enqueued |-> [b \in Basins |-> 0], dequeued |-> [b \in Basins |-> 0],
     basin_rows |-> {}, upstream_rows |-> {}]

(* The parse of the `timeseries` action: a window without the suffix that is *)
(* no integer stands for 24 hours                                            *)
ParseWindowLenient(window) ==
    IF window # <<>> /\ window[Len(window)] = "h"
    THEN PyInt(SubSeq(window, 1, Len(window) - 1))
    ELSE IF PyInt(window) = None THEN Some(24) ELSE PyInt(window)

(* The window parameter: `Nh` or `N`; None stands for ValueError *)
ParseWindow(window) ==
    IF window # <<>> /\ window[Len(window)] = "h"
    THEN PyInt(SubSeq(window, 1, Len(window) - 1))
    ELSE PyInt(window)

(* A depth test that stops one hop late *)
DepthReachedLate(depth, cur_depth) == depth # 0 /\ cur_depth > depth

(* `if depth and cur_depth >= depth: continue` *)
DepthReached(depth, cur_depth) == depth # 0 /\ cur_depth >= depth

(* BasinRelation.objects.filter(to_basin_id=cur_id) *)
RelationsTo(cur_id) == {rel \in relations : rel.to_basin = cur_id}

(* A membership test that lets every id through *)
NotVisitedAlways(nid, visited) == TRUE

(* `if nid not in visited` *)
NotVisited(nid, visited) == nid \notin visited

(* The orders in which a query without order_by may return its rows *)
Orderings(S) ==
    {s \in [1..Cardinality(S) -> S] : \A i, j \in 1..Cardinality(S) : i # j => s[i] # s[j]}

(* An expansion that enqueues unvisited ids without marking them visited *)
RECURSIVE ExpandUnmarked(_, _, _)
ExpandUnmarked(rels, visited, added) ==
    IF rels = <<>> THEN [visited |-> visited, added |-> added]
    ELSE LET nid == Head(rels).from_basin
         IN  IF nid \notin visited
             THEN ExpandUnmarked(Tail(rels), visited, Append(added, nid))
             ELSE ExpandUnmarked(Tail(rels), visited, added)

(* `for rel in relations:` over the rows in the order returned: the visited *)
(* set afterwards and the ids appended to the queue, in order.              *)
RECURSIVE Expand(_, _, _)
Expand(rels, visited, added) ==
    IF rels = <<>> THEN [visited |-> visited, added |-> added]
    ELSE LET nid == Head(rels).from_basin
         IN  IF NotVisited(nid, visited)
             THEN Expand(Tail(rels), visited \cup {nid}, Append(added, nid))
             ELSE Expand(Tail(rels), visited, added)

Count(seq, x) == Cardinality({i \in 1..Len(seq) : seq[i] = x})

(* Observation.objects.filter(basin..., data_type=dt, datetime__gte=cutoff) *)
ObservationsSince(basins, dt, cutoff) ==
    {o \in observations : o.basin \in basins /\ o.data_type = dt /\ o.datetime >= cutoff}

(* Whether api/views.py binds the name `logger` *)
ViewsLoggerBound == FALSE

----------------------------------------------------------------------------
(* upstream_aggregate: the steps of one request *)

(* Lines 70-108: parameters, cache lookup, window and data type, BFS setup. *)
(* get_ok says whether the cache backend answers the lookup.                *)
Request(r, b, name, window, depth_param, get_ok) ==
    /\ req[r].pc \in {"idle", "done"}
    /\ nreq < MaxRequests
    /\ nreq' = nreq + 1
    /\ LET depth == PyInt(depth_param)
           cached == get_upstream_cache(basin_id(b), name, window, depth[1])
           key == upstream_key(basin_id(b), name, window, depth[1])
           hours == ParseWindow(window)
           dt == DataTypeGet(name)
           fresh == [IdleReq EXCEPT !.basin = b, !.data_type_name = name,
                                    !.window = window, !.pc = "done"]
           parsed == [fresh EXCEPT !.depth = depth[1]]
           h0 == [NoHist EXCEPT !.started_at = now]
           Return(locals, resp) ==
                /\ req' = [req EXCEPT ![r] = [locals EXCEPT !.response = resp]]
                /\ hist' = [hist EXCEPT ![r] = h0]
       IN  IF depth = None
           THEN Return(fresh, Unhandled("ValueError"))
           ELSE IF name = <<>>
           THEN Return(parsed,
                       Response(400, [detail |-> "data_type query param is required"]))
           ELSE IF ~get_ok
           THEN /\ req' = [req EXCEPT ![r] =
                            [parsed EXCEPT !.response = Unhandled("ConnectionError")]]
                /\ hist' = [hist EXCEPT ![r] = [h0 EXCEPT !.lookup = "failed"]]
           ELSE IF cached # None
           THEN /\ req' = [req EXCEPT ![r] =
                            [parsed EXCEPT !.response = Response(200, cached[1])]]
                /\ hist' = [hist EXCEPT ![r] =
                            [h0 EXCEPT !.lookup = "hit",
                                       !.cache_hit =
                                Some([key |-> key, stored_at |-> cache[key].stored_at])]]
           ELSE IF hours = None
           THEN /\ req' = [req EXCEPT ![r] =
                            [parsed EXCEPT !.response =
                                Response(400, [detail |-> "invalid window format"])]]
                /\ hist' = [hist EXCEPT ![r] = [h0 EXCEPT !.lookup = "miss"]]
           ELSE IF dt = None
           THEN /\ req' = [req EXCEPT ![r] =
                            [parsed EXCEPT !.response =
                                Response(400, [detail |-> "data_type not found"])]]
                /\ hist' = [hist EXCEPT ![r] = [h0 EXCEPT !.lookup = "miss"]]
           ELSE /\ req' = [req EXCEPT ![r] =
                            [parsed EXCEPT !.pc = "bfs",
                                           !.hours = hours[1],
                                           !.cutoff = now - hours[1] * SecondsPerHour,
                                           !.dt = dt[1],
                                           !.queue = << <<b, 0>> >>,
                                           !.visited = {b}]]
                /\ hist' = [hist EXCEPT ![r] =
                            [h0 EXCEPT !.lookup = "miss", !.enqueued[b] = 1]]
    /\ UNCHANGED <<relations, observations, cache, now, ingest, api>>

(* Lines 110-121: one iteration of `while queue:` *)
BfsStep(r) ==
    /\ req[r].pc = "bfs"
    /\ req[r].queue # <<>>
    /\ LET cur_id == Head(req[r].queue)[1]
           cur_depth == Head(req[r].queue)[2]
           ups == IF cur_depth >= 1 THEN req[r].upstream_ids \cup {cur_id}
                  ELSE req[r].upstream_ids
           h1 == [hist[r] EXCEPT !.dequeued[cur_id] = @ + 1]
       IN  IF DepthReached(req[r].depth, cur_depth)
           THEN /\ req' = [req EXCEPT ![r] =
                            [@ EXCEPT !.queue = Tail(@), !.upstream_ids = ups]]
                /\ hist' = [hist EXCEPT ![r] = h1]
           ELSE \E rels \in Orderings(RelationsTo(cur_id)) :
                    LET e == Expand(rels, req[r].visited, <<>>)
                    IN  /\ req' = [req EXCEPT ![r] =
                                    [@ EXCEPT !.queue = Tail(@) \o
                                                  [i \in 1..Len(e.added) |->
                                                      <<e.added[i], cur_depth + 1>>],
                                              !.visited = e.visited,
                                              !.upstream_ids = ups]]
                        /\ hist' = [hist EXCEPT ![r] =
                                    [h1 EXCEPT !.graph_reads = @ + 1,
                                               !.enqueued = [b \in Basins |->
                                                    @[b] + Count(e.added, b)]]]
    /\ UNCHANGED <<relations, observations, cache, now, nreq, ingest, api>>

(* Lines 123-127: the root basin's own total, once the queue is empty *)
BasinSum(r) ==
    /\ req[r].pc = "bfs"
    /\ req[r].queue = <<>>
    /\ LET rows == ObservationsSince({req[r].basin}, req[r].dt, req[r].cutoff)
       IN  /\ req' = [req EXCEPT ![r] =
                        [@ EXCEPT !.pc = "upstream_sum",
                                  !.basin_sum = OrDecimalZero(AggregateSum(rows))]]
           /\ hist' = [hist EXCEPT ![r] =
                        [@ EXCEPT !.store_reads = @ + 1, !.basin_rows = rows]]
    /\ UNCHANGED <<relations, observations, cache, now, nreq, ingest, api>>

(* Lines 129-144: the upstream total and the payload *)
UpstreamSum(r) ==
    /\ req[r].pc = "upstream_sum"
    /\ LET ids == req[r].upstream_ids
           rows == IF ids # {} THEN ObservationsSince(ids, req[r].dt, req[r].cutoff)
                   ELSE {}
           upstream_sum == IF ids # {} THEN OrDecimalZero(AggregateSum(rows))
                           ELSE DecimalZero
           payload == [basin_id |-> basin_id(req[r].basin),
                       data_type |-> req[r].dt,
                       window_hours |-> req[r].hours,
                       basin_total |-> DecimalStr(req[r].basin_sum),
                       upstream_total |-> DecimalStr(upstream_sum),
                       upstream_count |-> Cardinality(ids)]
       IN  /\ req' = [req EXCEPT ![r] =
                        [@ EXCEPT !.pc = "cache_set",
                                  !.upstream_sum = upstream_sum,
                                  !.payload = Some(payload)]]
           /\ hist' = [hist EXCEPT ![r] =
                        [@ EXCEPT !.store_reads = IF ids # {} THEN @ + 1 ELSE @,
                                  !.upstream_rows = rows]]
    /\ UNCHANGED <<relations, observations, cache, now, nreq, ingest, api>>

(* Lines 147-152: store the payload, best effort, and answer.  set_ok says  *)
(* whether the cache backend accepts the write; when it raises, the except  *)
(* clause evaluates `logger`.                                               *)
CacheStore(r, set_ok) ==
    /\ req[r].pc = "cache_set"
    /\ LET payload == req[r].payload[1]
           key == upstream_key(basin_id(req[r].basin), req[r].data_type_name,
                               req[r].window, req[r].depth)
       IN  IF set_ok
           THEN /\ cache' = set_upstream_cache(basin_id(req[r].basin),
                                req[r].data_type_name, req[r].window,
                                req[r].depth, payload, None)
                /\ req' = [req EXCEPT ![r] =
                            [@ EXCEPT !.pc = "done", !.response = Response(200, payload)]]
                /\ hist' = [hist EXCEPT ![r] = [@ EXCEPT !.cache_stored = Some(key)]]
           ELSE /\ cache' = cache
                /\ req' = [req EXCEPT ![r] =
                            [@ EXCEPT !.pc = "done",
                                      !.response = IF ViewsLoggerBound
                                                   THEN Response(200, payload)
                                                   ELSE Unhandled("NameError")]]
                /\ hist' = hist
    /\ UNCHANGED <<relations, observations, now, nreq, ingest, api>>

----------------------------------------------------------------------------
(* The environment *)

(* Time passes *)
Tick ==
    /\ now + TickStep <= MaxNow
    /\ now' = now + TickStep
    /\ UNCHANGED <<relations, observations, cache, nreq, req, hist, ingest, api>>

(* An observation is written (ingestion's upsert, or the observations API) *)
WriteObservation(o) ==
    /\ Cardinality(Upsert(observations, o)) <= MaxObs
    /\ observations' = Upsert(observations, o)
    /\ UNCHANGED <<relations, cache, now, nreq, req, hist, ingest, api>>

(* The keys the `for prefix in prefixes` loop scans for *)
TimeseriesPrefixes(bid, data_type) ==
    <<TS_PREFIX \o bid \o <<":">> \o data_type \o <<":">>,
      TS_PREFIX \o bid \o <<":">>>>

(* A cursor loop that also stops at a batch without matching keys *)
RECURSIVE ScanDeleteStopOnEmpty(_, _, _, _, _, _)
ScanDeleteStopOnEmpty(c, prefix, batches, i, base, fail_at) ==
    IF base + i = fail_at THEN [cache |-> c, failed |-> TRUE]
    ELSE LET keys == {k \in batches[i] \cap DOMAIN c : StartsWith(k, prefix)}
             c1 == [k \in DOMAIN c \ keys |-> c[k]]
         IN  IF i = Len(batches) \/ keys = {} THEN [cache |-> c1, failed |-> FALSE]
             ELSE ScanDeleteStopOnEmpty(c1, prefix, batches, i + 1, base, fail_at)

(* Lines 68-78, one prefix: `while True` over conn.scan(cursor, match=       *)
(* prefix*, count=1000).  The keyspace comes back in `batches`, the last one *)
(* with cursor 0; the matching keys of a batch are deleted; the scan call    *)
(* numbered fail_at (counted over both prefixes) raises.                     *)
RECURSIVE ScanDelete(_, _, _, _, _, _)
ScanDelete(c, prefix, batches, i, base, fail_at) ==
    IF base + i = fail_at THEN [cache |-> c, failed |-> TRUE]
    ELSE LET keys == {k \in batches[i] \cap DOMAIN c : StartsWith(k, prefix)}
             c1 == [k \in DOMAIN c \ keys |-> c[k]]
         IN  IF i = Len(batches) THEN [cache |-> c1, failed |-> FALSE]
             ELSE ScanDelete(c1, prefix, batches, i + 1, base, fail_at)

(* Lines 81-86: the keys the fallback deletes; a delete that raises (for the *)
(* windows in `failing`) is passed over.                                     *)
FallbackDeletes(bid, data_type, failing) ==
    {timeseries_key(bid, data_type, win, Auto, Auto) : win \in {W24h, W48h, W168h} \ failing}

(* invalidate_timeseries_for_basin: the scan over both prefixes when the     *)
(* connection is obtained (conn_ok) and no call raises, else the fallback on *)
(* the cache as the failed scan left it.  `raised` tells whether an          *)
(* exception reaches the caller.                                             *)
invalidate_timeseries_for_basin(c, bid, data_type, conn_ok, batches, fail_at, failing) ==
    LET prefixes == TimeseriesPrefixes(bid, data_type)
        s1 == IF conn_ok THEN ScanDelete(c, prefixes[1], batches, 1, 0, fail_at)
              ELSE [cache |-> c, failed |-> TRUE]
        s2 == IF s1.failed THEN s1
              ELSE ScanDelete(s1.cache, prefixes[2], batches, 1, Len(batches), fail_at)
    IN  IF ~s2.failed
        THEN [cache |-> s2.cache, fallback |-> FALSE, raised |-> FALSE]
        ELSE [cache |-> [k \in DOMAIN s2.cache \ FallbackDeletes(bid, data_type, failing) |->
                            s2.cache[k]],
              fallback |-> TRUE, raised |-> FALSE]

InvalidateTimeseriesCall(bid, data_type, conn_ok, batches, fail_at, failing) ==
    LET out == invalidate_timeseries_for_basin(cache, bid, data_type, conn_ok,
                                               batches, fail_at, failing)
    IN  /\ cache' = out.cache
        /\ api' = [api EXCEPT !.last =
                    [fn |-> "invalidate_timeseries", bid |-> bid, data_type |-> data_type,
                     fallback |-> out.fallback,
                     batches |-> IF conn_ok THEN Len(batches) ELSE 0,
                     spread |-> IF conn_ok
                                THEN Cardinality({i \in DOMAIN batches :
                                        \E k \in batches[i] \cap DOMAIN cache :
                                            StartsWith(k, TimeseriesPrefixes(bid, data_type)[2])})
                                ELSE 0,
                     failing |-> IF out.fallback THEN failing ELSE {},
                     deleted |-> DOMAIN cache \ DOMAIN out.cache,
                     raised |-> out.raised]]
        /\ UNCHANGED <<relations, observations, now, nreq, req, hist, ingest>>

(* The enumeration of lines 96-104 with depth 2 left out *)
InvalidatedUpstreamKeysDepth1(downstream_list, failing) ==
    {upstream_key(dbid, dtype, w, 1) :
        dbid \in downstream_list, w \in {W24h, W48h, W168h}, dtype \in {Rainfall, Temperature}}
        \ failing

(* Lines 96-104: the keys deleted for the ids of downstream_list.  The two   *)
(* deletes of one (id, window, data type) share a try block: when the first  *)
(* raises (its key is in `failing`) the second is not attempted.             *)
InvalidatedUpstreamKeys(downstream_list, failing) ==
    UNION {LET k1 == upstream_key(dbid, dtype, w, 1)
               k2 == upstream_key(dbid, dtype, w, 2)
           IN  IF k1 \in failing THEN {} ELSE {k1, k2} \ failing :
        dbid \in downstream_list, w \in {W24h, W48h, W168h}, dtype \in {Rainfall, Temperature}}

(* The function without its outer try/except *)
invalidate_upstream_uncaught(c, lookup_ok, downstream_list, failing) ==
    IF ~lookup_ok THEN [cache |-> c, raised |-> TRUE]
    ELSE [cache |-> [k \in DOMAIN c \ InvalidatedUpstreamKeys(downstream_list, failing) |-> c[k]],
          raised |-> FALSE]

(* invalidate_upstream_for_impacted_downstream: when get_downstream_fn       *)
(* raises (~lookup_ok) the outer except logs and the function returns; else  *)
(* the enumerated keys of its result are deleted.                            *)
invalidate_upstream_for_impacted_downstream(c, lookup_ok, downstream_list, failing) ==
    IF ~lookup_ok THEN [cache |-> c, raised |-> FALSE]
    ELSE [cache |-> [k \in DOMAIN c \ InvalidatedUpstreamKeys(downstream_list, failing) |-> c[k]],
          raised |-> FALSE]

(* The call as a write path makes it while requests are served: the lookup   *)
(* returns downstream_list and no cache operation fails.                     *)
InvalidateUpstream(downstream_list) ==
    /\ cache' = invalidate_upstream_for_impacted_downstream(cache, TRUE,
                                                            downstream_list, {}).cache
    /\ UNCHANGED <<relations, observations, now, nreq, req, hist, ingest, api>>

(* A direct call, with its inputs and outcome kept *)
InvalidateUpstreamCall(lookup_ok, downstream_list, failing) ==
    LET out == invalidate_upstream_for_impacted_downstream(cache, lookup_ok,
                                                           downstream_list, failing)
    IN  /\ cache' = out.cache
        /\ api' = [api EXCEPT !.last =
                    [fn |-> "invalidate_upstream", lookup_ok |-> lookup_ok,
                     downstream_list |-> IF lookup_ok THEN downstream_list ELSE {},
                     failing |-> IF lookup_ok THEN failing ELSE {},
                     deleted |-> DOMAIN cache \ DOMAIN out.cache,
                     raised |-> out.raised]]
        /\ UNCHANGED <<relations, observations, now, nreq, req, hist, ingest>>

----------------------------------------------------------------------------
(* ingest_observations (management/commands/ingest_observations.py) *)

(* A CSV row as the loop sees it: one it skips (no basin id, unknown data    *)
(* type, unparsable datetime or value, basin lookup error), or the           *)
(* observation it appends to the batch.                                      *)
SkippedRow == [valid |-> FALSE]

ValidRow(o) == [valid |-> TRUE, obs |-> o]

(* The command's locals before the run: counters at zero, an empty batch.    *)
(* `committed` records the basins whose observations the run has written,    *)
(* `peak` the most rows insert_rows has held (it is longest right after the  *)
(* append, before the test that flushes it).                                 *)
IdleIngest ==
    [pc |-> "idle", rows |-> <<>>, batch_size |-> 1, total |-> 0, ingested |-> 0,
     skipped |-> 0, errors |-> 0, insert_rows |-> <<>>, committed |-> {}, peak |-> 0]

RECURSIVE UpsertAll(_, _)
UpsertAll(store, rows) ==
    IF rows = <<>> THEN store ELSE UpsertAll(Upsert(store, Head(rows)), Tail(rows))

RECURSIVE KeepRows(_, _, _)
KeepRows(rows, kept, i) ==
    IF i > Len(rows) THEN <<>>
    ELSE (IF i \in kept THEN <<rows[i]>> ELSE <<>>) \o KeepRows(rows, kept, i + 1)

(* A flush whose fallback leaves the rows it could not write uncounted *)
flush_batch_uncounted(g, store, batch_ok, failed) ==
    IF g.insert_rows = <<>> THEN [ingest |-> g, store |-> store]
    ELSE LET n == Len(g.insert_rows)
             kept == IF batch_ok THEN 1..n ELSE (1..n) \ failed
             written == KeepRows(g.insert_rows, kept, 1)
         IN  [ingest |-> [g EXCEPT !.ingested = @ + Cardinality(kept),
                                   !.insert_rows = <<>>,
                                   !.committed = @ \cup {written[i].basin : i \in 1..Len(written)}],
              store |-> UpsertAll(store, written)]

(* flush_batch(): nothing on an empty batch.  When the multi-row upsert      *)
(* succeeds (batch_ok) every row is written and counted ingested; when it    *)
(* raises, each row is retried with update_or_create and counted ingested,   *)
(* or counted an error when the retry raises (the rows at `failed`).  The    *)
(* batch is emptied either way.                                              *)
flush_batch(g, store, batch_ok, failed) ==
    IF g.insert_rows = <<>> THEN [ingest |-> g, store |-> store]
    ELSE LET n == Len(g.insert_rows)
             kept == IF batch_ok THEN 1..n ELSE (1..n) \ failed
             written == KeepRows(g.insert_rows, kept, 1)
         IN  [ingest |-> [g EXCEPT !.ingested = @ + Cardinality(kept),
                                   !.errors = @ + (n - Cardinality(kept)),
                                   !.insert_rows = <<>>,
                                   !.committed = @ \cup {written[i].basin : i \in 1..Len(written)}],
              store |-> UpsertAll(store, written)]

(* handle(): the counters and the batch are initialised *)
IngestStart(rows, batch_size) ==
    /\ ingest.pc = "idle"
    /\ ingest' = [IdleIngest EXCEPT !.pc = "rows", !.rows = rows, !.batch_size = batch_size]
    /\ UNCHANGED <<relations, observations, cache, now, nreq, req, hist, api>>

(* One iteration of `for row_index, raw_row in enumerate(reader, start=1)`,  *)
(* with the flush of a full batch.                                           *)
IngestRow(batch_ok, failed) ==
    /\ ingest.pc = "rows"
    /\ ingest.rows # <<>>
    /\ LET row == Head(ingest.rows)
           g1 == [ingest EXCEPT !.rows = Tail(@), !.total = @ + 1]
       IN  IF ~row.valid
           THEN /\ ingest' = [g1 EXCEPT !.skipped = @ + 1, !.errors = @ + 1]
                /\ UNCHANGED observations
           ELSE LET g2 == [g1 EXCEPT !.insert_rows = Append(@, row.obs),
                                     !.peak = IF Len(g1.insert_rows) + 1 > @
                                              THEN Len(g1.insert_rows) + 1 ELSE @]
                IN  IF Len(g2.insert_rows) >= g2.batch_size
                    THEN LET f == flush_batch(g2, observations, batch_ok, failed)
                         IN  /\ ingest' = f.ingest
                             /\ observations' = f.store
                    ELSE /\ ingest' = g2
                         /\ UNCHANGED observations
    /\ UNCHANGED <<relations, cache, now, nreq, req, hist, api>>

(* After the loop: the remaining rows are flushed and the summary written *)
IngestFinish(batch_ok, failed) ==
    /\ ingest.pc = "rows"
    /\ ingest.rows = <<>>
    /\ LET f == flush_batch(ingest, observations, batch_ok, failed)
       IN  /\ ingest' = [f.ingest EXCEPT !.pc = "done"]
           /\ observations' = f.store
    /\ UNCHANGED <<relations, cache, now, nreq, req, hist, api>>

----------------------------------------------------------------------------
(* get_upstream_aggregation (monitoring/logic.py) *)

(* The Python int n *)
PyIntValue(n) == [int |-> n]

(* Lines 10-13: the from_basin ids of the upstream_to_downstream relations   *)
(* into the target                                                           *)
DirectUpstreamIds(target_basin) ==
    {rel.from_basin : rel \in {x \in relations :
        x.to_basin = target_basin /\ x.relation_type = RELATION_TYPE_UPSTREAM}}

(* Lines 16-19: the rows the total is taken over *)
UpstreamRows(target_basin, data_type_obj) ==
    {o \in observations :
        o.basin \in DirectUpstreamIds(target_basin) /\ o.data_type = data_type_obj}

(* The function without the relation_type filter *)
get_upstream_aggregation_any_type(target_basin, data_type_obj) ==
    LET ids == {rel.from_basin : rel \in {x \in relations : x.to_basin = target_basin}}
        total == AggregateSum({o \in observations :
                                o.basin \in ids /\ o.data_type = data_type_obj})
    IN  IF total = None \/ total[1].units = 0 THEN Some(PyIntValue(0)) ELSE total

(* The function returning the aggregate as the query gives it *)
get_upstream_aggregation_no_default(target_basin, data_type_obj) ==
    AggregateSum(UpstreamRows(target_basin, data_type_obj))

(* get_upstream_aggregation: `total or 0`; the value returned is given as    *)
(* Some(value), and None would be a returned None.                           *)
get_upstream_aggregation(target_basin, data_type_obj) ==
    LET total == AggregateSum(UpstreamRows(target_basin, data_type_obj))
    IN  IF total = None \/ total[1].units = 0 THEN Some(PyIntValue(0)) ELSE total

(* A call, with what it read and what it returned *)
GetUpstreamAggregationCall(target_basin, data_type_obj) ==
    /\ api' = [api EXCEPT !.last =
                [fn |-> "get_upstream_aggregation", target_basin |-> target_basin,
                 data_type_obj |-> data_type_obj,
                 upstream_ids |-> DirectUpstreamIds(target_basin),
                 rows |-> UpstreamRows(target_basin, data_type_obj),
                 result |-> get_upstream_aggregation(target_basin, data_type_obj)]]
    /\ UNCHANGED <<relations, observations, cache, now, nreq, req, hist, ingest>>

----------------------------------------------------------------------------
(* timeseries_api (monitoring/views.py).  Time 0 of the model is the instant *)
(* 2026-02-22T00:00:00 of the current time zone, taken to be UTC.            *)

(* The defaults of the tunable settings *)
MAX_RAW_POINTS == 5000
AGGREGATE_HOURLY_THRESHOLD == 2000

(* getattr(settings, name, default): `overrides` holds what settings.py sets *)
Setting(overrides, name, default) ==
    IF name \in DOMAIN overrides THEN overrides[name] ELSE default

(* parse_datetime_local(value), for the texts of February 2026:              *)
(* 2026-02-DD, any separator, HH:MM and optionally :SS.  fromisoformat       *)
(* reads them (the strptime formats read nothing it does not); any other     *)
(* text of the model's inputs is read by neither and gives None.             *)
parse_datetime_local(value) ==
    LET n == Len(value)
        Two(i) == 10 * DigitVal(value[i]) + DigitVal(value[i + 1])
        shape == /\ n \in {16, 19}
                 /\ SubSeq(value, 1, 8) = <<"2", "0", "2", "6", "-", "0", "2", "-">>
                 /\ \A i \in {9, 10, 12, 13, 15, 16} : value[i] \in Digits
                 /\ value[14] = ":"
                 /\ n = 19 => value[17] = ":" /\ value[18] \in Digits /\ value[19] \in Digits
        seconds == IF n = 19 THEN Two(18) ELSE 0
    IN  IF value = <<>> THEN None
        ELSE IF shape /\ Two(9) \in 1..28 /\ Two(12) < 24 /\ Two(15) < 60 /\ seconds < 60
        THEN Some((Two(9) - 22) * 24 * SecondsPerHour + Two(12) * SecondsPerHour
                    + Two(15) * 60 + seconds)
        ELSE None

(* dt.isoformat() of an aware datetime in February 2026 without microseconds *)
IsoFormat(t) ==
    LET day == 24 * SecondsPerHour
        Pad2(n) == <<DigitChar(n \div 10), DigitChar(n % 10)>>
    IN  <<"2", "0", "2", "6", "-", "0", "2", "-">> \o Pad2(22 + (t \div day))
            \o <<"T">> \o Pad2((t % day) \div SecondsPerHour)
            \o <<":">> \o Pad2((t % SecondsPerHour) \div 60)
            \o <<":">> \o Pad2(t % 60) \o <<"+", "0", "0", ":", "0", "0">>

(* A float, given as the exact quotient num / den *)
Float(num, den) == [num |-> num, den |-> den]

(* Lines 159-165: TruncDay for `daily`, TruncHour for everything else *)
TruncPeriod(resolution, t) ==
    IF resolution = <<"d", "a", "i", "l", "y">> THEN t - (t % (24 * SecondsPerHour))
    ELSE t - (t % SecondsPerHour)

(* The rows when the data type name is matched letter for letter *)
TimeseriesRowsExactName(bid, data_type, start_dt, end_dt) ==
    {o \in observations :
        /\ basin_id(o.basin) = bid
        /\ o.data_type = data_type
        /\ o.datetime >= start_dt
        /\ o.datetime <= end_dt}

(* Lines 113-118: the rows of base_qs *)
TimeseriesRows(bid, data_type, start_dt, end_dt) ==
    {o \in observations :
        /\ basin_id(o.basin) = bid
        /\ Lower(o.data_type) = Lower(data_type)
        /\ o.datetime >= start_dt
        /\ o.datetime <= end_dt}

(* A choice that turns to hourly already at the threshold *)
ChooseResolutionAtThreshold(resolution_param, data_count, threshold) ==
    LET resolution == Lower(IF resolution_param = <<>> THEN Auto ELSE resolution_param)
    IN  IF resolution = Auto
        THEN IF data_count >= threshold THEN <<"h", "o", "u", "r", "l", "y">>
             ELSE <<"r", "a", "w">>
        ELSE resolution

(* Lines 128-133 *)
ChooseResolution(resolution_param, data_count, threshold) ==
    LET resolution == Lower(IF resolution_param = <<>> THEN Auto ELSE resolution_param)
    IN  IF resolution = Auto
        THEN IF data_count > threshold THEN <<"h", "o", "u", "r", "l", "y">>
             ELSE <<"r", "a", "w">>
        ELSE resolution

(* A guard that lets every count through *)
RawTooLargeNever(data_count, max_raw) == FALSE

(* Line 142 *)
RawTooLarge(data_count, max_raw) == data_count > max_raw

(* timeseries_api, lines 88-214.  p holds the query parameters, overrides    *)
(* the settings, count_ok tells whether base_qs.count() succeeds, ordered is *)
(* the order in which the raw rows come back.                                *)
timeseries_api(p, overrides, count_ok, ordered) ==
    LET max_raw == Setting(overrides, "DASHBOARD_MAX_RAW_POINTS", MAX_RAW_POINTS)
        threshold == Setting(overrides, "DASHBOARD_AGG_HOURLY_THRESHOLD",
                             AGGREGATE_HOURLY_THRESHOLD)
        sp == parse_datetime_local(p.start)
        ep == parse_datetime_local(p.end)
        last24 == p.start = <<>> \/ p.end = <<>> \/ sp = None \/ ep = None
        start_dt == IF last24 THEN now - 24 * SecondsPerHour ELSE sp[1]
        end_dt == IF last24 THEN now ELSE ep[1]
        rows == TimeseriesRows(p.basin_id, p.data_type, start_dt, end_dt)
        data_count == IF count_ok THEN Cardinality(rows) ELSE 0
        resolution == ChooseResolution(p.resolution, data_count, threshold)
        lower == Lower(p.data_type)
        use_sum == \E i \in 1..(Len(lower) - 3) :
                        SubSeq(lower, i, i + 3) = <<"r", "a", "i", "n">>
        unit == Pow10(DecimalPlaces)
        raw_points == [i \in 1..Len(ordered) |->
                        [x |-> IsoFormat(ordered[i].datetime),
                         y |-> Float(ordered[i].value, unit)]]
        periods == {TruncPeriod(resolution, o.datetime) : o \in rows}
        by_period == CHOOSE s \in Orderings(periods) :
                        \A i, j \in 1..Len(s) : i < j => s[i] < s[j]
        Group(period) == {o \in rows : TruncPeriod(resolution, o.datetime) = period}
        agg_points == [i \in 1..Len(by_period) |->
                        [x |-> IsoFormat(by_period[i]),
                         y |-> IF use_sum
                               THEN Float(SumValues(Group(by_period[i])), unit)
                               ELSE Float(SumValues(Group(by_period[i])),
                                          Cardinality(Group(by_period[i])) * unit)]]
        values == {o.value : o \in rows}
        summary == [count |-> Cardinality(rows),
                    sum |-> IF rows = {} THEN None ELSE Some(Float(SumValues(rows), unit)),
                    avg |-> IF rows = {} THEN None
                            ELSE Some(Float(SumValues(rows), Cardinality(rows) * unit)),
                    min |-> IF rows = {} THEN None
                            ELSE Some(Float(CHOOSE v \in values : \A w \in values : v <= w, unit)),
                    max |-> IF rows = {} THEN None
                            ELSE Some(Float(CHOOSE v \in values : \A w \in values : v >= w, unit))]
    IN  IF p.basin_id = <<>> \/ p.data_type = <<>>
        THEN Response(400, [ok |-> FALSE, error |-> "basin_id and data_type required"])
        ELSE IF resolution = <<"r", "a", "w">> /\ RawTooLarge(data_count, max_raw)
        THEN Response(413, [ok |-> FALSE, error |-> "raw_too_large",
                            message |-> [rows |-> data_count, limit |-> max_raw],
                            data_count |-> data_count, resolution |-> <<"r", "a", "w">>])
        ELSE Response(200, [ok |-> TRUE, data_count |-> data_count,
                            resolution |-> resolution,
                            points |-> IF resolution = <<"r", "a", "w">> THEN raw_points
                                       ELSE agg_points,
                            summary |-> summary])

(* One request, with its inputs, the rows its range matches and its answer.  *)
(* The raw rows come back in an order `order_by("datetime")` may give.       *)
TimeseriesApiCall(p, overrides, count_ok) ==
    /\ api.last = NoCall
    /\ LET sp == parse_datetime_local(p.start)
           ep == parse_datetime_local(p.end)
           last24 == p.start = <<>> \/ p.end = <<>> \/ sp = None \/ ep = None
           rows == TimeseriesRows(p.basin_id, p.data_type,
                                  IF last24 THEN now - 24 * SecondsPerHour ELSE sp[1],
                                  IF last24 THEN now ELSE ep[1])
           OrderedByDatetime ==
                {s \in Orderings(rows) :
                    \A i, j \in 1..Len(s) : i < j => s[i].datetime <= s[j].datetime}
       IN  \E ordered \in OrderedByDatetime :
                api' = [api EXCEPT !.last =
                            [fn |-> "timeseries_api", params |-> p, overrides |-> overrides,
                             count_ok |-> count_ok, at |-> now, rows |-> rows,
                             response |-> timeseries_api(p, overrides, count_ok, ordered)]]
    /\ UNCHANGED <<relations, observations, cache, now, nreq, req, hist, ingest>>

----------------------------------------------------------------------------
(* Inputs *)

Rel(from, to, type) == [from_basin |-> from, to_basin |-> to, relation_type |-> type]

(* Every relation table of at most n rows *)
RECURSIVE Graphs(_)
Graphs(n) ==
    IF n = 0 THEN {{}}
    ELSE LET G == Graphs(n - 1)
         IN  G \cup {g \cup {e} : g \in G, e \in BasinRelation}

(* The fixture of monitoring/tests.py: UP-01 (basin 2) flows into DOWN-01   *)
(* (basin 1), and the value 15.5 of its one observation.                    *)
FixtureGraph == {Rel(2, 1, RELATION_TYPE_UPSTREAM)}

FixtureValue == 155000

(* One Rainfall observation per basin, one hour before time 0 *)
OnePerBasin ==
    {Observation(b, Rainfall, 0 - SecondsPerHour, "sensor_01", FixtureValue) : b \in Basins}

TraversalDepths == {<<"0">>, <<"1">>, <<"2">>, <<"-", "1">>}

----------------------------------------------------------------------------
(* Traversal: one request, any root and depth, over any relation table *)

InitTraversal ==
    /\ relations \in Graphs(MaxEdges)
    /\ observations = OnePerBasin
    /\ cache = EmptyCache
    /\ now = 0
    /\ nreq = 0
    /\ req = [r \in Reqs |-> IdleReq]
    /\ hist = [r \in Reqs |-> NoHist]
    /\ ingest = IdleIngest
    /\ api = NoApi

NextTraversal ==
    \/ \E b \in Basins, d \in TraversalDepths :
            nreq = 0 /\ Request(1, b, Rainfall, W24h, d, TRUE)
    \/ BfsStep(1)
    \/ BasinSum(1)
    \/ UpstreamSum(1)
    \/ CacheStore(1, TRUE)

SpecTraversal == InitTraversal /\ [][NextTraversal]_vars

----------------------------------------------------------------------------
(* Aggregation: one request at time 0 while observations are being written *)

AggregateGraphs ==
    SUBSET {Rel(2, 1, RELATION_TYPE_UPSTREAM), Rel(1, 2, RELATION_TYPE_UPSTREAM),
            Rel(3, 2, RELATION_TYPE_UPSTREAM)}

(* Just before the 24 h cutoff of a request at time 0, at the cutoff, at 0 *)
AggregateTimes == {0 - 24 * SecondsPerHour - 1, 0 - 24 * SecondsPerHour, 0}

AggregateObservations ==
    {Observation(b, dt, t, src, v) :
        b \in Basins, dt \in DataTypes, t \in AggregateTimes, src \in Sources,
        v \in {FixtureValue, 0 - FixtureValue}}

InitAggregate ==
    /\ relations \in AggregateGraphs
    /\ observations = {}
    /\ cache = EmptyCache
    /\ now = 0
    /\ nreq = 0
    /\ req = [r \in Reqs |-> IdleReq]
    /\ hist = [r \in Reqs |-> NoHist]
    /\ ingest = IdleIngest
    /\ api = NoApi

NextAggregate ==
    \/ \E o \in AggregateObservations : WriteObservation(o)
    \/ \E d \in {<<"1">>, <<"2">>} :
            nreq = 0 /\ Request(1, 1, Rainfall, W24h, d, TRUE)
    \/ BfsStep(1)
    \/ BasinSum(1)
    \/ UpstreamSum(1)
    \/ CacheStore(1, TRUE)

SpecAggregate == InitAggregate /\ [][NextAggregate]_vars

----------------------------------------------------------------------------
(* The service: requests one after another against the fixture's relation   *)
(* table, while time passes, observations are written, cache entries are     *)
(* invalidated and the cache backend may fail any operation.                 *)

RequestNames == {Rainfall, <<"r", "a", "i", "n", "f", "a", "l", "l">>, <<"S", "n", "o", "w">>, <<>>}

RequestWindows == {W24h, <<"h">>}

RequestDepths == {<<"1">>, <<"x">>}

(* Rainfall at the upstream basin, one hour before time 0 *)
WrittenObservations ==
    {Observation(2, Rainfall, 0 - SecondsPerHour, src, FixtureValue) : src \in Sources}

Init ==
    /\ relations = FixtureGraph
    /\ observations = {}
    /\ cache = EmptyCache
    /\ now = 0
    /\ nreq = 0
    /\ req = [r \in Reqs |-> IdleReq]
    /\ hist = [r \in Reqs |-> NoHist]
    /\ ingest = IdleIngest
    /\ api = NoApi

Next ==
    \/ \E name \in RequestNames, w \in RequestWindows, d \in RequestDepths,
          get_ok \in BOOLEAN :
            Request(1, 1, name, w, d, get_ok)
    \/ BfsStep(1)
    \/ BasinSum(1)
    \/ UpstreamSum(1)
    \/ \E set_ok \in BOOLEAN : CacheStore(1, set_ok)
    \/ Tick
    \/ \E o \in WrittenObservations : WriteObservation(o)
    \/ \E b \in Basins : InvalidateUpstream({basin_id(b)})

Spec == Init /\ [][Next]_vars

----------------------------------------------------------------------------
(* What the claims speak of *)

(* The request went through traversal: the BFS loop has ended *)
BfsFinished(r) ==
    \/ req[r].pc \in {"upstream_sum", "cache_set"}
    \/ req[r].pc = "done" /\ req[r].payload # None

(* The basins with an upstream_to_downstream relation into a basin of S *)
FlowsInto(S) ==
    {rel.from_basin : rel \in {x \in relations :
        x.relation_type = RELATION_TYPE_UPSTREAM /\ x.to_basin \in S}}

(* The basins at most n backward hops from root, root included *)
RECURSIVE WithinHops(_, _)
WithinHops(root, n) ==
    IF n = 0 THEN {root}
    ELSE LET W == WithinHops(root, n - 1) IN W \cup FlowsInto(W)

(* The basins other than root whose backward hop distance is in 1..D *)
UpstreamWithin(root, D) == WithinHops(root, D) \ {root}

AllUpstreamType == \A rel \in relations : rel.relation_type = RELATION_TYPE_UPSTREAM

(* C1: a request with depth = 0 performs no upstream traversal: the upstream *)
(* set is empty, upstream_count is 0 and upstream_total is "0".              *)
C1_DepthZeroEmpty ==
    \A r \in Reqs :
        BfsFinished(r) /\ req[r].depth = 0 =>
            /\ req[r].upstream_ids = {}
            /\ req[r].payload # None =>
                    /\ req[r].payload[1].upstream_count = 0
                    /\ req[r].payload[1].upstream_total = "0"

(* C2: when every relation is of type upstream_to_downstream and D >= 1, the *)
(* upstream set is exactly the set of basins other than the root at backward *)
(* hop distance 1..D, and upstream_count is its size.                        *)
C2_UpstreamSetExact ==
    \A r \in Reqs :
        BfsFinished(r) /\ req[r].depth >= 1 /\ AllUpstreamType =>
            /\ req[r].upstream_ids = UpstreamWithin(req[r].basin, req[r].depth)
            /\ req[r].basin \notin req[r].upstream_ids
            /\ req[r].payload # None =>
                    req[r].payload[1].upstream_count =
                        Cardinality(UpstreamWithin(req[r].basin, req[r].depth))

(* C2's case: depth 1, the root has a self-loop, one basin is one hop away   *)
(* and another is two hops away and left out.                                *)
C2_Witness ==
    \E r \in Reqs :
        /\ req[r].pc = "done" /\ req[r].payload # None
        /\ req[r].depth = 1
        /\ AllUpstreamType
        /\ Rel(req[r].basin, req[r].basin, RELATION_TYPE_UPSTREAM) \in relations
        /\ req[r].upstream_ids # {}
        /\ UpstreamWithin(req[r].basin, 2) \ req[r].upstream_ids # {}

(* C3: only upstream_to_downstream relations contribute: every basin of the  *)
(* upstream set is connected to the root through relations of that type, and *)
(* upstream_count and upstream_total count no other basin.                    *)
C3_OnlyUpstreamType ==
    \A r \in Reqs :
        BfsFinished(r) =>
            /\ req[r].upstream_ids \subseteq UpstreamWithin(req[r].basin, NumBasins)
            /\ req[r].payload # None =>
                    /\ req[r].payload[1].upstream_count
                            <= Cardinality(UpstreamWithin(req[r].basin, NumBasins))
                    /\ \A o \in hist[r].upstream_rows :
                            o.basin \in UpstreamWithin(req[r].basin, NumBasins)

(* C10: the BFS enqueues each basin at most once and dequeues it at most     *)
(* once, and the visited set always contains the root and every id that has  *)
(* ever been in the queue.                                                   *)
C10_VisitOnce ==
    \A r \in Reqs :
        /\ \A b \in Basins : hist[r].enqueued[b] <= 1 /\ hist[r].dequeued[b] <= 1
        /\ \A i, j \in 1..Len(req[r].queue) :
                i # j => req[r].queue[i][1] # req[r].queue[j][1]
        /\ req[r].pc = "bfs" =>
                /\ req[r].basin \in req[r].visited
                /\ \A b \in Basins : hist[r].enqueued[b] >= 1 => b \in req[r].visited

(* C10's case: unbounded depth over a two-basin cycle reached by two         *)
(* relations of different types; both basins were expanded once.             *)
C10_Witness ==
    \E r \in Reqs, b \in Basins :
        /\ BfsFinished(r)
        /\ b # req[r].basin
        /\ Rel(b, req[r].basin, RELATION_TYPE_UPSTREAM) \in relations
        /\ Rel(b, req[r].basin, "other") \in relations
        /\ Rel(req[r].basin, b, RELATION_TYPE_UPSTREAM) \in relations
        /\ hist[r].dequeued[b] = 1
        /\ hist[r].dequeued[req[r].basin] = 1
        /\ hist[r].graph_reads = 2

(* The observations of the given basins and data type in [start, end) *)
InWindow(basins, dt, start, end) ==
    {o \in observations :
        /\ o.basin \in basins
        /\ o.data_type = dt
        /\ start <= o.datetime
        /\ o.datetime < end}

(* The window [now - hours, now) of request r, now being its issue time *)
WindowStart(r) == hist[r].started_at - req[r].hours * SecondsPerHour

WindowEnd(r) == hist[r].started_at

(* The rendering of the total of a set of rows *)
TotalOf(rows) == DecimalStr(OrDecimalZero(AggregateSum(rows)))

(* C4: the payload is the exact aggregate of the store at query time:        *)
(* basin_total is the sum over the root's observations of the data type      *)
(* inside the window, upstream_total the sum over the observations of the    *)
(* upstream set inside the window (never the root's), upstream_count the     *)
(* size of the upstream set; rows of several sources are each added.         *)
C4_ExactAggregate ==
    [][\A r \in Reqs :
        /\ req[r].pc = "bfs" /\ req'[r].pc = "upstream_sum" =>
                DecimalStr(req'[r].basin_sum) =
                    TotalOf(InWindow({req[r].basin}, req[r].dt, WindowStart(r), WindowEnd(r)))
        /\ req[r].pc = "upstream_sum" /\ req'[r].pc = "cache_set" =>
                /\ req'[r].payload[1].basin_total = DecimalStr(req[r].basin_sum)
                /\ req'[r].payload[1].upstream_total =
                        TotalOf(InWindow(req[r].upstream_ids \ {req[r].basin}, req[r].dt,
                                         WindowStart(r), WindowEnd(r)))
                /\ req'[r].payload[1].upstream_count = Cardinality(req[r].upstream_ids)
      ]_vars

(* C5: the window is the half-open range [now - hours, now): a matching      *)
(* observation stamped exactly now - hours is counted, and no observation    *)
(* stamped at or after the request's now is counted in either total.         *)
C5_HalfOpenWindow ==
    [][\A r \in Reqs :
        /\ req[r].pc = "bfs" /\ req'[r].pc = "upstream_sum" =>
                /\ \A o \in observations :
                        o.basin = req[r].basin /\ o.data_type = req[r].dt
                            /\ o.datetime = WindowStart(r) => o \in hist'[r].basin_rows
                /\ \A o \in hist'[r].basin_rows : o.datetime < WindowEnd(r)
        /\ req[r].pc = "upstream_sum" /\ req'[r].pc = "cache_set" =>
                /\ \A o \in observations :
                        o.basin \in req[r].upstream_ids /\ o.data_type = req[r].dt
                            /\ o.datetime = WindowStart(r) => o \in hist'[r].upstream_rows
                /\ \A o \in hist'[r].upstream_rows : o.datetime < WindowEnd(r)
      ]_vars

(* The upstream-aggregate key of the request as r holds it in state q *)
RequestKey(q) ==
    upstream_key(basin_id(q.basin), q.data_type_name, q.window, q.depth)

(* C6: the cache is consulted before any traversal or aggregation.  A        *)
(* request whose key has an unexpired entry is answered with exactly the     *)
(* stored payload, reading neither the relation table nor the observations;  *)
(* on a miss the computed payload is stored under that same key with the     *)
(* upstream TTL and the response equals the stored payload.                  *)
C6_CacheFirst ==
    [][\A r \in Reqs :
        /\ ( /\ nreq' = nreq + 1
             /\ hist'[r].lookup \in {"hit", "miss"}
             /\ RequestKey(req'[r]) \in DOMAIN cache
             /\ Live(cache[RequestKey(req'[r])], now) )
           => /\ req'[r].pc = "done"
              /\ req'[r].response = Response(200, cache[RequestKey(req'[r])].payload)
              /\ hist'[r].graph_reads = 0
              /\ hist'[r].store_reads = 0
        /\ ( /\ nreq' = nreq + 1
             /\ hist'[r].lookup \in {"hit", "miss"}
             /\ ~( /\ RequestKey(req'[r]) \in DOMAIN cache
                   /\ Live(cache[RequestKey(req'[r])], now) ) )
           => /\ hist'[r].lookup = "miss"
              /\ req'[r].pc = "bfs" \/ req'[r].response.status = 400
        /\ ( /\ req[r].pc = "cache_set"
             /\ hist'[r].cache_stored # None )
           => /\ hist'[r].cache_stored = Some(RequestKey(req[r]))
              /\ RequestKey(req[r]) \in DOMAIN cache'
              /\ cache'[RequestKey(req[r])].payload = req[r].payload[1]
              /\ cache'[RequestKey(req[r])].expiry = Some(now + UP_TTL)
              /\ req'[r].response = Response(200, cache'[RequestKey(req[r])].payload)
              /\ \A k \in DOMAIN cache \ {RequestKey(req[r])} :
                    k \in DOMAIN cache' /\ cache'[k] = cache[k]
      ]_vars

(* C6's case: a second request is answered from the entry a first one       *)
(* stored, whose payload carries a non-zero upstream total.                  *)
C6_Witness ==
    \E r \in Reqs :
        /\ req[r].pc = "done"
        /\ hist[r].lookup = "hit"
        /\ req[r].response.status = 200
        /\ req[r].response.data.upstream_total = DecimalStr(Decimal(FixtureValue, DecimalPlaces))
        /\ hist[r].graph_reads = 0
        /\ hist[r].store_reads = 0

(* C7: no payload is served once its TTL has elapsed since it was stored:    *)
(* every entry expires exactly UP_TTL after it was stored (a hit or an       *)
(* invalidation never moves the expiry), and every hit happened less than    *)
(* UP_TTL after the entry was stored.                                        *)
C7_TtlBoundsStaleness ==
    /\ UP_TTL = 300
    /\ \A k \in DOMAIN cache : cache[k].expiry = Some(cache[k].stored_at + UP_TTL)
    /\ \A r \in Reqs :
            hist[r].cache_hit # None =>
                /\ hist[r].cache_hit[1].stored_at <= hist[r].started_at
                /\ hist[r].started_at - hist[r].cache_hit[1].stored_at < UP_TTL

(* C7's case: the request's key still has an entry whose TTL has elapsed,    *)
(* and the request was not answered from it but went on to recompute.        *)
C7_Witness ==
    \E r \in Reqs :
        /\ req[r].pc = "bfs"
        /\ hist[r].lookup = "miss"
        /\ RequestKey(req[r]) \in DOMAIN cache
        /\ hist[r].started_at - cache[RequestKey(req[r])].stored_at >= UP_TTL

(* C8: when storing the computed payload fails, the request still answers    *)
(* 200 with the computed payload.                                            *)
C8_SetFailureSwallowed ==
    \A r \in Reqs :
        req[r].pc = "done" /\ req[r].payload # None /\ hist[r].cache_stored = None =>
            req[r].response = Response(200, req[r].payload[1])

(* C9: when the cache lookup fails, the request proceeds as a cache miss and *)
(* no error reaches the caller: it ends with the computed payload, or with   *)
(* the 400 a miss would give.                                                *)
C9_GetFailureIsMiss ==
    \A r \in Reqs :
        hist[r].lookup = "failed" /\ req[r].pc = "done" =>
            \/ req[r].payload # None /\ req[r].response = Response(200, req[r].payload[1])
            \/ req[r].response.status = 400

----------------------------------------------------------------------------
(* Termination of the traversal *)

RECURSIVE SumUpTo(_, _)
SumUpTo(f, n) == IF n = 0 THEN 0 ELSE f[n] + SumUpTo(f, n - 1)

(* Loop iterations of the BFS so far *)
Dequeues(r) == SumUpTo(hist[r].dequeued, NumBasins)

(* The variant of the BFS loop: queued entries, and two per basin not yet    *)
(* visited (a basin still to be visited costs one enqueue and one dequeue).  *)
BfsVariant(q) == Len(q.queue) + 2 * Cardinality(Basins \ q.visited)

(* C11: the BFS terminates for every relation table and every integer depth, *)
(* cycles included.  While the loop runs it can always take its next step    *)
(* (an iteration while the queue is non-empty, the exit once it is empty),   *)
(* every visited basin is either still queued or was dequeued, so there are  *)
(* at most NumBasins iterations, and every iteration strictly decreases the  *)
(* natural-number variant; the loop is left only with an empty queue.        *)
C11_BfsTerminates ==
    /\ [](\A r \in Reqs :
            req[r].pc = "bfs" =>
                /\ req[r].queue # <<>> => ENABLED BfsStep(r)
                /\ req[r].queue = <<>> => ENABLED BasinSum(r)
                /\ Dequeues(r) + Len(req[r].queue) = Cardinality(req[r].visited)
                /\ Dequeues(r) <= NumBasins)
    /\ [][\A r \in Reqs :
            req[r].pc = "bfs" /\ req'[r] # req[r] =>
                IF req'[r].pc = "bfs"
                THEN /\ Dequeues(r)' = Dequeues(r) + 1
                     /\ BfsVariant(req'[r]) < BfsVariant(req[r])
                ELSE req[r].queue = <<>>]_vars

(* C11's case: the unbounded depth 0 over a cycle through every basin; the   *)
(* loop ended after dequeuing each basin once.                               *)
C11_Witness ==
    \E r \in Reqs :
        /\ BfsFinished(r)
        /\ req[r].depth = 0
        /\ \A b \in Basins :
                Rel(b, (b % NumBasins) + 1, RELATION_TYPE_UPSTREAM) \in relations
        /\ Dequeues(r) = NumBasins

----------------------------------------------------------------------------
(* Ingestion: one run of the command over a short CSV file, with cached      *)
(* results of the ingested basins and of their downstream basin present      *)

MaxBatch == 2

SeqsUpTo(S, n) == UNION {[1..k -> S] : k \in 1..n}

(* The rows of a file: skipped rows and one Rainfall reading per basin *)
IngestRowKinds ==
    {SkippedRow} \cup
    {ValidRow(Observation(b, Rainfall, 0 - SecondsPerHour, "sensor_01", FixtureValue)) :
        b \in Basins}

Hourly == <<"h", "o", "u", "r", "l", "y">>

(* What earlier queries left in the cache: the timeseries of basin 2 and the *)
(* upstream aggregate of basin 1, which basin 2 flows into.                  *)
IngestCache ==
    CacheSet(CacheSet(EmptyCache,
                      timeseries_key(basin_id(2), Rainfall, None, None, Hourly),
                      "points", Some(TS_TTL), 0),
             upstream_key(basin_id(1), Rainfall, W24h, 1), "totals", Some(UP_TTL), 0)

InitIngest ==
    /\ relations = FixtureGraph
    /\ observations = {}
    /\ cache = IngestCache
    /\ now = 0
    /\ nreq = 0
    /\ req = [r \in Reqs |-> IdleReq]
    /\ hist = [r \in Reqs |-> NoHist]
    /\ ingest = IdleIngest
    /\ api = NoApi

NextIngest ==
    \/ \E rows \in SeqsUpTo(IngestRowKinds, MaxRows), batch_size \in 0..MaxBatch :
            IngestStart(rows, batch_size)
    \/ \E batch_ok \in BOOLEAN, failed \in SUBSET (1..MaxBatch) :
            IngestRow(batch_ok, failed)
    \/ \E batch_ok \in BOOLEAN, failed \in SUBSET (1..MaxBatch) :
            IngestFinish(batch_ok, failed)

SpecIngest == InitIngest /\ [][NextIngest]_vars

(* The basins b flows into by an upstream_to_downstream relation *)
DownstreamOf(b) ==
    {rel.to_basin : rel \in {x \in relations :
        x.from_basin = b /\ x.relation_type = RELATION_TYPE_UPSTREAM}}

(* C12: when the ingestion command has finished, both invalidations have     *)
(* been carried out for every basin whose observations it committed: no      *)
(* timeseries key of the basin is left in the cache, and none of the         *)
(* enumerated upstream-aggregate keys of the basins it flows into.           *)
C12_IngestInvalidates ==
    ingest.pc = "done" =>
        \A b \in ingest.committed :
            /\ \A k \in DOMAIN cache :
                    ~StartsWith(k, TS_PREFIX \o basin_id(b) \o <<":">>)
            /\ \A d \in DownstreamOf(b), w \in {W24h, W48h, W168h},
                  dt \in {Rainfall, Temperature}, depth \in {1, 2} :
                    upstream_key(basin_id(d), dt, w, depth) \notin DOMAIN cache

----------------------------------------------------------------------------
(* Invalidation: direct calls of the two invalidation functions on a cache   *)
(* that holds entries of both key families                                   *)

MaxScanBatches == 3

Start1 ==
    <<"2", "0", "2", "6", "-", "0", "2", "-", "2", "1", "T", "0", "5", ":", "0", "0", ":", "0", "0">>

RainfallLower == <<"r", "a", "i", "n", "f", "a", "l", "l">>

(* Timeseries keys: basin 1 with missing bounds, basin 1 with a start        *)
(* bound, the key the fallback composes for basin 1, and basin 2.            *)
InvalidationTimeseriesKeys ==
    {timeseries_key(basin_id(1), Rainfall, None, None, Hourly),
     timeseries_key(basin_id(1), Temperature, Start1, None, Hourly),
     timeseries_key(basin_id(1), Rainfall, W24h, Auto, Auto),
     timeseries_key(basin_id(2), Rainfall, None, None, Hourly)}

(* Upstream keys: depths 1, 2 and 3 of basin 1, a lower-case data type name  *)
(* (the request's spelling goes into the key), and basin 2.                  *)
InvalidationUpstreamKeys ==
    {upstream_key(basin_id(1), Rainfall, W24h, 1),
     upstream_key(basin_id(1), Rainfall, W24h, 2),
     upstream_key(basin_id(1), Rainfall, W24h, 3),
     upstream_key(basin_id(1), RainfallLower, W24h, 1),
     upstream_key(basin_id(2), Temperature, W168h, 2)}

RECURSIVE StoreAll(_, _)
StoreAll(c, keys) ==
    IF keys = {} THEN c
    ELSE LET k == CHOOSE k \in keys : TRUE
         IN  StoreAll(CacheSet(c, k, "payload", Some(TS_TTL), 0), keys \ {k})

(* The batches a scan of the keyspace returns: all keys at once, or one      *)
(* timeseries key first and the rest last, with empty batches in between.    *)
ScanBatches(c) ==
    {<<DOMAIN c>>} \cup
    {<<{k}>> \o [i \in 1..(n - 2) |-> {}] \o <<DOMAIN c \ {k}>> :
        k \in DOMAIN c \cap InvalidationTimeseriesKeys, n \in 2..MaxScanBatches}

InitInvalidate ==
    /\ relations = FixtureGraph
    /\ observations = {}
    /\ cache = StoreAll(EmptyCache, InvalidationTimeseriesKeys \cup InvalidationUpstreamKeys)
    /\ now = 0
    /\ nreq = 0
    /\ req = [r \in Reqs |-> IdleReq]
    /\ hist = [r \in Reqs |-> NoHist]
    /\ ingest = IdleIngest
    /\ api = NoApi

NextInvalidate ==
    \/ \E b \in {1, 2}, batches \in ScanBatches(cache) :
            InvalidateTimeseriesCall(basin_id(b), Rainfall, TRUE, batches, 0, {})
    \/ \E b \in {1, 2}, batches \in ScanBatches(cache),
          fail_at \in 1..(MaxScanBatches + 1), failing \in {{}, {W24h, W48h, W168h}} :
            InvalidateTimeseriesCall(basin_id(b), Rainfall, TRUE, batches, fail_at, failing)
    \/ \E b \in {1, 2}, failing \in {{}, {W24h, W48h, W168h}} :
            InvalidateTimeseriesCall(basin_id(b), Rainfall, FALSE, <<{}>>, 0, failing)
    \/ \E lookup_ok \in BOOLEAN, downstream_list \in SUBSET {basin_id(1), basin_id(2)},
          failing \in {{}, {upstream_key(basin_id(1), Rainfall, W24h, 1)},
                       {upstream_key(basin_id(1), Rainfall, W24h, 2)}} :
            InvalidateUpstreamCall(lookup_ok, downstream_list, failing)

SpecInvalidate == InitInvalidate /\ [][NextInvalidate]_vars

(* The upstream-aggregate keys the claim enumerates for a downstream id *)
EnumeratedUpstreamKeys(dbid) ==
    {UP_PREFIX \o dbid \o <<":">> \o dt \o <<":">> \o w \o <<":", "d">> \o d :
        dt \in {Rainfall, Temperature}, w \in {W24h, W48h, W168h}, d \in {<<"1">>, <<"2">>}}

(* A step that is the given kind of direct call *)
IsCall(fn) == api'.last.fn = fn /\ <<cache, api>>' # <<cache, api>>

(* C13: after invalidate_upstream_for_impacted_downstream has completed with *)
(* no backend error, the cache holds none of the enumerated keys (windows    *)
(* 24h, 48h, 168h x depths 1, 2 x Rainfall, Temperature) of any downstream   *)
(* id the lookup returned, and every entry outside that key set is as it was *)
(* before the call.                                                          *)
C13_UpstreamInvalidationExact ==
    [][IsCall("invalidate_upstream") /\ api'.last.lookup_ok /\ api'.last.failing = {} =>
        LET enumerated == UNION {EnumeratedUpstreamKeys(dbid) :
                                    dbid \in api'.last.downstream_list}
        IN  /\ enumerated \cap DOMAIN cache' = {}
            /\ \A k \in DOMAIN cache \ enumerated :
                    k \in DOMAIN cache' /\ cache'[k] = cache[k]]_vars

(* C13's case: a call for basin 1 alone removed its depth-1 and depth-2      *)
(* entries; depth 3, the lower-case spelling and basin 2 are still cached.   *)
C13_Witness ==
    /\ api.last.fn = "invalidate_upstream"
    /\ api.last.lookup_ok
    /\ api.last.failing = {}
    /\ api.last.downstream_list = {basin_id(1)}
    /\ api.last.deleted = {upstream_key(basin_id(1), Rainfall, W24h, 1),
                           upstream_key(basin_id(1), Rainfall, W24h, 2)}
    /\ {upstream_key(basin_id(1), Rainfall, W24h, 3),
        upstream_key(basin_id(1), RainfallLower, W24h, 1),
        upstream_key(basin_id(2), Temperature, W168h, 2)} \subseteq DOMAIN cache

EndsWith(s, suffix) ==
    Len(s) >= Len(suffix) /\ SubSeq(s, Len(s) - Len(suffix) + 1, Len(s)) = suffix

(* C15: when the connection for scanning cannot be obtained, the fallback of *)
(* invalidate_timeseries_for_basin(b, dt) deletes only keys of (b, dt) whose *)
(* start and end bounds are both `auto`, and afterwards the cache holds no   *)
(* such key for any of the windows 24h, 48h, 168h.                           *)
C15_FallbackDeletesAutoBounds ==
    api.last.fn = "invalidate_timeseries" /\ api.last.fallback
        /\ api.last.batches = 0 /\ api.last.failing = {} =>
        LET p1 == TS_PREFIX \o api.last.bid \o <<":">> \o api.last.data_type \o <<":">>
            autos == <<":">> \o Auto \o <<":">> \o Auto
        IN  /\ \A k \in api.last.deleted : StartsWith(k, p1) /\ EndsWith(k, autos)
            /\ \A w \in {W24h, W48h, W168h} : (p1 \o w \o autos) \notin DOMAIN cache

(* C16: neither invalidation function raises to its caller, whichever of     *)
(* its backend calls fail: obtaining the connection, a scan or delete of the *)
(* scan loop, a delete of the fallback, the injected downstream lookup, or a *)
(* delete of an upstream key.                                                *)
C16_InvalidationNeverRaises ==
    api.last.fn \in {"invalidate_timeseries", "invalidate_upstream"} => ~api.last.raised

(* C16's case: the downstream lookup raised; the call returned normally and  *)
(* deleted nothing.                                                          *)
C16_Witness ==
    /\ api.last.fn = "invalidate_upstream"
    /\ ~api.last.lookup_ok
    /\ ~api.last.raised
    /\ api.last.deleted = {}

----------------------------------------------------------------------------
(* The cache wrappers called directly: stores, lookups and the clock *)

MaxSets == 1

(* A bound with a zone designator *)
Start1Z ==
    <<"2", "0", "2", "6", "-", "0", "2", "-", "2", "1", "T", "0", "5", ":",
    "0", "0", ":", "0", "0", "Z">>

(* A window and a bound longer than KeyLimit: zero-padded digits *)
LongWindow == [i \in 1..KeyLimit |-> "0"] \o W24h

LongBound == Start1 \o [i \in 1..KeyLimit |-> "0"]

UpstreamArgs(bid, data_type, window, depth) ==
    [family |-> "upstream", bid |-> bid, data_type |-> data_type,
     window |-> window, depth |-> depth]

TimeseriesArgs(bid, data_type, start_iso, end_iso, resolution) ==
    [family |-> "timeseries", bid |-> bid, data_type |-> data_type,
     start_iso |-> start_iso, end_iso |-> end_iso, resolution |-> resolution]

(* The key a wrapper composes for its arguments *)
KeyOf(a) ==
    IF a.family = "upstream" THEN upstream_key(a.bid, a.data_type, a.window, a.depth)
    ELSE timeseries_key(a.bid, a.data_type, a.start_iso, a.end_iso, a.resolution)

(* The argument tuples stored *)
StoredArgs ==
    {UpstreamArgs(basin_id(1), Rainfall, W24h, 1),
     UpstreamArgs(basin_id(1), Rainfall \o <<":">> \o W24h, W24h, 1),
     UpstreamArgs(basin_id(1), Rainfall, LongWindow, 1),
     TimeseriesArgs(basin_id(1), Rainfall, None, None, Hourly),
     TimeseriesArgs(basin_id(1), Rainfall, Start1, None, Hourly),
     TimeseriesArgs(basin_id(1), Rainfall, Start1Z, None, Hourly),
     TimeseriesArgs(basin_id(1), Rainfall, LongBound, None, Hourly)}

(* The argument tuples looked up: those stored, another depth, a window     *)
(* with a colon, and bounds as callers write them: with a space, with a      *)
(* fractional part, with a fractional part and a zone designator, and a bare *)
(* fraction.                                                                 *)
LookupArgs ==
    LET
        Start1Space == <<"2", "0", "2", "6", "-", "0", "2", "-", "2", "1",
            " ", "0", "5", ":", "0", "0", ":", "0", "0">>
        Start1Fraction == <<"2", "0", "2", "6", "-", "0", "2", "-", "2",
            "1", "T", "0", "5", ":", "0", "0", ":", "0", "0", ".", "1",
            "2", "3">>
        Start1FractionZ == <<"2", "0", "2", "6", "-", "0", "2", "-", "2",
            "1", "T", "0", "5", ":", "0", "0", ":", "0", "0", ".", "0",
            "0", "0", "Z">>
        BareFraction == <<".", "5">>
    IN  StoredArgs \cup
        {UpstreamArgs(basin_id(1), Rainfall, W24h, 2),
         UpstreamArgs(basin_id(1), Rainfall, W24h \o <<":">> \o W24h, 1)} \cup
        {TimeseriesArgs(basin_id(1), Rainfall, s, None, Hourly) :
            s \in {Auto, Start1Space, Start1Fraction, Start1FractionZ, Start1Z,
                   BareFraction}}

(* set_upstream_cache / set_timeseries_cache *)
SetCall(a, payload, ttl) ==
    /\ api.nsets < MaxSets
    /\ cache' = IF a.family = "upstream"
                THEN set_upstream_cache(a.bid, a.data_type, a.window, a.depth, payload, ttl)
                ELSE set_timeseries_cache(a.bid, a.data_type, a.start_iso, a.end_iso,
                                          a.resolution, payload, ttl)
    /\ api' = [last |-> [fn |-> "set", args |-> a, key |-> KeyOf(a)],
               sets |-> [k \in DOMAIN api.sets \cup {KeyOf(a)} |->
                            IF k = KeyOf(a)
                            THEN [args |-> a, payload |-> payload, ttl |-> ttl, at |-> now]
                            ELSE api.sets[k]],
               nsets |-> api.nsets + 1]
    /\ UNCHANGED <<relations, observations, now, nreq, req, hist, ingest>>

(* get_upstream_cache / get_timeseries_cache *)
GetCall(a) ==
    /\ api' = [api EXCEPT !.last =
                [fn |-> "get", args |-> a, key |-> KeyOf(a), at |-> now,
                 result |-> IF a.family = "upstream"
                            THEN get_upstream_cache(a.bid, a.data_type, a.window, a.depth)
                            ELSE get_timeseries_cache(a.bid, a.data_type, a.start_iso,
                                                      a.end_iso, a.resolution)]]
    /\ UNCHANGED <<relations, observations, cache, now, nreq, req, hist, ingest>>

InitWrappers ==
    /\ relations = FixtureGraph
    /\ observations = {}
    /\ cache = EmptyCache
    /\ now = 0
    /\ nreq = 0
    /\ req = [r \in Reqs |-> IdleReq]
    /\ hist = [r \in Reqs |-> NoHist]
    /\ ingest = IdleIngest
    /\ api = NoApi

NextWrappers ==
    \/ \E a \in StoredArgs, payload \in {"v1", "v2"},
          ttl \in {None, Some(0), Some(TickStep), Some(0 - 1)} :
            SetCall(a, payload, ttl)
    \/ \E a \in LookupArgs : GetCall(a)
    \/ Tick

SpecWrappers == InitWrappers /\ [][NextWrappers]_vars

(* C17: every key the wrappers read or write the cache under, in both key    *)
(* families, is at most KeyLimit characters long.                            *)
C17_KeysBounded ==
    /\ api.last.fn \in {"get", "set"} => Len(api.last.key) <= KeyLimit
    /\ \A k \in DOMAIN cache : Len(k) <= KeyLimit

(* The whole-second form of a bound, as the claims read it: a space between  *)
(* date and time written as T, and a fractional-second part (a dot and the   *)
(* digits after it) left out; what follows the fraction is kept.             *)
WholeSecond(s) ==
    LET t == [i \in 1..Len(s) |-> IF s[i] = " " THEN "T" ELSE s[i]]
        dots == {i \in 1..Len(t) : t[i] = "."}
        dot == CHOOSE i \in dots : \A j \in dots : i <= j
        rest == {i \in (dot + 1)..Len(t) : t[i] \notin Digits}
        next == IF rest = {} THEN Len(t) + 1 ELSE CHOOSE i \in rest : \A j \in rest : i <= j
    IN  IF dots = {} THEN t ELSE SubSeq(t, 1, dot - 1) \o SubSeq(t, next, Len(t))

(* Two argument tuples of one family that agree in every component, bounds   *)
(* compared as instants                                                      *)
SameTuple(a, b) ==
    /\ a.family = b.family
    /\ a.bid = b.bid
    /\ a.data_type = b.data_type
    /\ IF a.family = "upstream"
       THEN a.window = b.window /\ a.depth = b.depth
       ELSE /\ a.resolution = b.resolution
            /\ WholeSecond(a.start_iso) = WholeSecond(b.start_iso)
            /\ WholeSecond(a.end_iso) = WholeSecond(b.end_iso)

Hashed(key) == StartsWith(key, TS_PREFIX \o <<"h", "a", "s", "h", ":">>)

(* C18: for keys that are not hashed the codec is injective: a lookup that   *)
(* composes the key of a stored entry has the same argument tuple as the     *)
(* store (basin id, data type name, window literal and depth; or resolution, *)
(* start instant and end instant).                                           *)
C18_CodecInjective ==
    api.last.fn = "get" /\ api.last.key \in DOMAIN api.sets /\ ~Hashed(api.last.key) =>
        SameTuple(api.last.args, api.sets[api.last.key].args)

(* C19: timeseries_key normalizes its bounds.  A missing or empty bound is   *)
(* written `auto`; a lookup whose bounds differ from those of a stored entry *)
(* only by a space in place of T or by a fractional-second part composes the *)
(* key of that entry; normalizing a normalized bound changes nothing.        *)
C19_BoundsNormalized ==
    api.last.fn = "get" /\ api.last.args.family = "timeseries" =>
        LET a == api.last.args
        IN  /\ a.start_iso = <<>> /\ a.end_iso = <<>> =>
                    api.last.key = TS_PREFIX \o a.bid \o <<":">> \o a.data_type \o <<":">>
                                    \o a.resolution \o <<":">> \o Auto \o <<":">> \o Auto
            /\ \A k \in DOMAIN api.sets :
                    SameTuple(a, api.sets[k].args) => api.last.key = k
            /\ \A s \in {a.start_iso, a.end_iso} :
                    normalize_iso(normalize_iso(s)) = normalize_iso(s)

(* C20: a lookup with the parameters of the latest store returns the stored  *)
(* payload while less than the TTL has passed since the store, and nothing   *)
(* once the TTL has passed; the TTL is the one passed to the store, or the   *)
(* family default when none was passed.                                      *)
C20_RoundTrip ==
    api.last.fn = "get" /\ api.last.key \in DOMAIN api.sets
        /\ api.sets[api.last.key].args = api.last.args =>
        LET s == api.sets[api.last.key]
            t == IF s.ttl # None THEN s.ttl[1]
                 ELSE IF s.args.family = "upstream" THEN UP_TTL ELSE TS_TTL
        IN  api.last.result = IF api.last.at - s.at < t THEN Some(s.payload) ELSE None

----------------------------------------------------------------------------
(* Validation: requests one after another with well-formed and malformed     *)
(* parameters, against a cache that answers every call                       *)

W24 == <<"2", "4">>

ValidationNames == {Rainfall, RainfallLower, <<"S", "n", "o", "w">>, <<>>}

(* `24h`, `24`, a negative integer with the suffix; and no digits, a capital *)
(* suffix, a trailing letter, a fraction, the empty string                   *)
ValidationWindows ==
    {W24h, W24, <<"-", "1", "h">>,
     <<"h">>, <<"2", "4", "H">>, <<"2", "4", "x">>, <<"1", ".", "5", "h">>, <<>>}

InitValidation ==
    /\ relations = FixtureGraph
    /\ observations = OnePerBasin
    /\ cache = EmptyCache
    /\ now = 0
    /\ nreq = 0
    /\ req = [r \in Reqs |-> IdleReq]
    /\ hist = [r \in Reqs |-> NoHist]
    /\ ingest = IdleIngest
    /\ api = NoApi

NextValidation ==
    \/ \E name \in ValidationNames, w \in ValidationWindows :
            Request(1, 1, name, w, <<"1">>, TRUE)
    \/ BfsStep(1)
    \/ BasinSum(1)
    \/ UpstreamSum(1)
    \/ CacheStore(1, TRUE)

SpecValidation == InitValidation /\ [][NextValidation]_vars

(* An integer literal: an optional sign and at least one decimal digit *)
IntegerLiteral(s) ==
    LET body == IF s # <<>> /\ s[1] \in {"-", "+"} THEN Tail(s) ELSE s
    IN  body # <<>> /\ \A i \in 1..Len(body) : body[i] \in Digits

(* A bare integer, or an integer followed by h *)
WindowForm(w) ==
    \/ IntegerLiteral(w)
    \/ w # <<>> /\ w[Len(w)] = "h" /\ IntegerLiteral(SubSeq(w, 1, Len(w) - 1))

(* The hours a well-formed window stands for *)
WindowHours(w) ==
    LET body == IF w[Len(w)] = "h" THEN SubSeq(w, 1, Len(w) - 1) ELSE w
        digits == IF body[1] \in {"-", "+"} THEN Tail(body) ELSE body
    IN  IF body[1] = "-" THEN 0 - DigitsVal(digits) ELSE DigitsVal(digits)

(* The name is that of a DataType row, in any letter case *)
KnownDataType(name) == \E dt \in DataTypes : Lower(dt) = Lower(name)

C22_MalformedDepthIs4xx ==
    \A r \in Reqs :
        req[r].pc = "done" /\ hist[r].lookup = "none" =>
            /\ req[r].response.status \in 400..499
            /\ "detail" \in DOMAIN req[r].response.data

----------------------------------------------------------------------------
(* Aggregation by both entry points: calls of get_upstream_aggregation and   *)
(* one upstream_aggregate request while observations are being written       *)

(* UP-01 into DOWN-01 as in the fixture, a basin two hops away, a relation   *)
(* of the other type and a relation of the target into itself                *)
LogicGraphs ==
    SUBSET {Rel(2, 1, RELATION_TYPE_UPSTREAM), Rel(3, 2, RELATION_TYPE_UPSTREAM),
            Rel(3, 1, "other"), Rel(1, 1, RELATION_TYPE_UPSTREAM)}

(* Readings of either data type, one hour and 25 hours before time 0 *)
LogicObservations ==
    {Observation(b, dt, t, "sensor_01", FixtureValue) :
        b \in Basins, dt \in DataTypes,
        t \in {0 - SecondsPerHour, 0 - 25 * SecondsPerHour}}

InitLogic ==
    /\ relations \in LogicGraphs
    /\ observations = {}
    /\ cache = EmptyCache
    /\ now = 0
    /\ nreq = 0
    /\ req = [r \in Reqs |-> IdleReq]
    /\ hist = [r \in Reqs |-> NoHist]
    /\ ingest = IdleIngest
    /\ api = NoApi

NextLogic ==
    \/ \E o \in LogicObservations : WriteObservation(o)
    \/ \E dt \in DataTypes : GetUpstreamAggregationCall(1, dt)
    \/ nreq = 0 /\ Request(1, 1, Rainfall, W24h, <<"1">>, TRUE)
    \/ BfsStep(1)
    \/ BasinSum(1)
    \/ UpstreamSum(1)
    \/ CacheStore(1, TRUE)

SpecLogic == InitLogic /\ [][NextLogic]_vars

(* C23: aggregation over an empty matching set gives exactly zero, never an  *)
(* error or null.  When the root's query matched no row basin_total is the   *)
(* decimal zero, when the upstream query matched none (or was not made)      *)
(* upstream_total is; get_upstream_aggregation returns the integer 0 when    *)
(* the target has no upstream basin and when its upstream basins have no     *)
(* observation of the data type.                                             *)
C23_EmptyIsZero ==
    /\ \A r \in Reqs :
            req[r].payload # None =>
                /\ hist[r].basin_rows = {} => req[r].payload[1].basin_total = "0"
                /\ hist[r].upstream_rows = {} => req[r].payload[1].upstream_total = "0"
                /\ req[r].pc = "done" => req[r].response = Response(200, req[r].payload[1])
    /\ api.last.fn = "get_upstream_aggregation" =>
            /\ api.last.upstream_ids = {} => api.last.rows = {}
            /\ api.last.rows = {} => api.last.result = Some(PyIntValue(0))

(* C23's case: the store holds rows, none of which matches.  The request     *)
(* found an upstream basin and answered with both totals zero; the call      *)
(* found an upstream basin without rows of the data type and returned 0.     *)
C23_Witness ==
    /\ observations # {}
    /\ \E r \in Reqs :
            /\ req[r].pc = "done"
            /\ req[r].response.status = 200
            /\ req[r].response.data.upstream_count >= 1
            /\ req[r].response.data.basin_total = "0"
            /\ req[r].response.data.upstream_total = "0"
    /\ api.last.fn = "get_upstream_aggregation"
    /\ api.last.upstream_ids # {}
    /\ \E o \in observations : o.basin \in api.last.upstream_ids
    /\ api.last.result = Some(PyIntValue(0))

(* The basins with an upstream_to_downstream relation straight into target *)
FlowsDirectlyInto(target) ==
    {b \in Basins : Rel(b, target, RELATION_TYPE_UPSTREAM) \in relations}

----------------------------------------------------------------------------
(* Stampede: several clients send the same upstream_aggregate query at once, *)
(* each served by its own worker, while time passes                          *)

NumClients == 2

Clients == 1..NumClients

(* Rainfall at the upstream basin that leaves the 24 h window of a request   *)
(* made two ticks after time 0, with or without a reading at the root        *)
StampedeStores ==
    {{},
     {Observation(2, Rainfall, TickStep - 24 * SecondsPerHour, "sensor_01", FixtureValue)},
     {Observation(2, Rainfall, TickStep - 24 * SecondsPerHour, "sensor_01", FixtureValue),
      Observation(1, Rainfall, 0 - SecondsPerHour, "sensor_01", FixtureValue)}}

InitStampede ==
    /\ relations = FixtureGraph
    /\ observations \in StampedeStores
    /\ cache = EmptyCache
    /\ now = 0
    /\ nreq = 0
    /\ req = [r \in Clients |-> IdleReq]
    /\ hist = [r \in Clients |-> NoHist]
    /\ ingest = IdleIngest
    /\ api = NoApi

NextStampede ==
    \/ \E r \in Clients : Request(r, 1, Rainfall, W24h, <<"1">>, TRUE)
    \/ \E r \in Clients : BfsStep(r)
    \/ \E r \in Clients : BasinSum(r)
    \/ \E r \in Clients : UpstreamSum(r)
    \/ \E r \in Clients : CacheStore(r, TRUE)
    \/ Tick

SpecStampede == InitStampede /\ [][NextStampede]_vars

(* The request of client r missed the cache and has answered *)
Recomputed(r) == req[r].pc = "done" /\ hist[r].lookup = "miss"

PayloadFields ==
    {"basin_id", "data_type", "window_hours", "basin_total", "upstream_total",
     "upstream_count"}

(* C24: concurrent identical queries need no coordination.  A request past   *)
(* its cache miss can always take its next step, whatever the other requests *)
(* are doing, and every request ends with status 200 and a complete payload. *)
(* Requests that missed at the same clock value over the same store and      *)
(* relation table return the same payload, and once all clients have         *)
(* recomputed at one clock value the cache holds exactly that payload under  *)
(* the key.                                                                  *)
C24_StampedeNeutral ==
    /\ \A r \in Clients :
            /\ req[r].pc = "bfs" /\ req[r].queue # <<>> => ENABLED BfsStep(r)
            /\ req[r].pc = "bfs" /\ req[r].queue = <<>> => ENABLED BasinSum(r)
            /\ req[r].pc = "upstream_sum" => ENABLED UpstreamSum(r)
            /\ req[r].pc = "cache_set" => ENABLED CacheStore(r, TRUE)
            /\ req[r].pc = "done" =>
                    /\ req[r].response.status = 200
                    /\ DOMAIN req[r].response.data = PayloadFields
            /\ Recomputed(r) =>
                    /\ req[r].response.data = req[r].payload[1]
                    /\ RequestKey(req[r]) \in DOMAIN cache
    /\ \A r, q \in Clients :
            Recomputed(r) /\ Recomputed(q) /\ hist[r].started_at = hist[q].started_at =>
                req[r].response = req[q].response
    /\ \A r \in Clients :
            (\A q \in Clients : Recomputed(q) /\ hist[q].started_at = hist[r].started_at) =>
                cache[RequestKey(req[r])].payload = req[r].response.data

(* C24's case: every client missed the same key at the same clock value,     *)
(* after an earlier entry had expired; each read the relation table and the  *)
(* observations and stored its payload, which differs from the earlier one.  *)
C24_Witness ==
    /\ \A r \in Clients :
            /\ Recomputed(r)
            /\ hist[r].started_at = 2 * TickStep
            /\ hist[r].graph_reads >= 1
            /\ hist[r].store_reads = 2
            /\ hist[r].cache_stored = Some(upstream_key(basin_id(1), Rainfall, W24h, 1))
            /\ req[r].response.data.upstream_total = "0"
    /\ observations # {}
    /\ cache[upstream_key(basin_id(1), Rainfall, W24h, 1)].stored_at >= 2 * TickStep

----------------------------------------------------------------------------
(* The dashboard's timeseries endpoint: one request against a store of a few *)
(* readings, under the default settings and under lowered limits             *)

InitTimeseries ==
    LET
        (* Rainfall at basin 1: two readings in one hour (two sensors), one  *)
        (* in the hour after, one exactly 24 h and one just over 24 h before *)
        (* time 0, one in the future; a Temperature reading and a reading of *)
        (* basin 2.                                                          *)
        TimeseriesReadings ==
            {Observation(1, Rainfall, t, "sensor_01", FixtureValue) :
                t \in {0 - 2 * SecondsPerHour, 0 - SecondsPerHour, 0 - 24 * SecondsPerHour,
                       0 - 24 * SecondsPerHour - 1, MaxNow}} \cup
            {Observation(1, Rainfall, TickStep - 2 * SecondsPerHour, "sensor_02",
                         0 - FixtureValue),
             Observation(1, Temperature, 0 - SecondsPerHour, "sensor_01", FixtureValue),
             Observation(2, Rainfall, 0 - SecondsPerHour, "sensor_01", FixtureValue)}
    IN
    /\ relations = FixtureGraph
    /\ observations \in {S \in SUBSET TimeseriesReadings : Cardinality(S) <= MaxObs}
    /\ cache = EmptyCache
    /\ now \in {0, TickStep}
    /\ nreq = 0
    /\ req = [r \in Reqs |-> IdleReq]
    /\ hist = [r \in Reqs |-> NoHist]
    /\ ingest = IdleIngest
    /\ api = NoApi

(* The query strings: the data type in either spelling; the default range, a *)
(* range of one hour, a missing end and a start that does not parse; each    *)
(* resolution; and requests without basin_id or data_type.  settings.py:     *)
(* nothing set, both limits lowered, or the raw ceiling lowered below the    *)
(* hourly threshold.                                                         *)
NextTimeseries ==
    LET
        Start2300 == <<"2", "0", "2", "6", "-", "0", "2", "-", "2", "1", "T",
            "2", "3", ":", "0", "0">>
        End0000 == <<"2", "0", "2", "6", "-", "0", "2", "-", "2", "2", " ",
            "0", "0", ":", "0", "0", ":", "0", "0">>
        TimeseriesParams ==
            {[basin_id |-> basin_id(1), data_type |-> dt, start |-> range[1],
              end |-> range[2], resolution |-> res] :
                dt \in {RainfallLower, Temperature},
                range \in {<<None, None>>, <<Start2300, End0000>>, <<Start2300, None>>,
                           <<<<"n", "o", "w">>, End0000>>},
                res \in {None, Auto, <<"A", "U", "T", "O">>, <<"r", "a", "w">>,
                         <<"R", "a", "w">>, Hourly, <<"d", "a", "i", "l", "y">>,
                         <<"w", "e", "e", "k", "l", "y">>}} \cup
            {[basin_id |-> None, data_type |-> Rainfall, start |-> None, end |-> None,
              resolution |-> None],
             [basin_id |-> basin_id(1), data_type |-> None, start |-> None, end |-> None,
              resolution |-> None]}
        TimeseriesSettings ==
            {[name \in {} |-> 0],
             [name \in {"DASHBOARD_AGG_HOURLY_THRESHOLD", "DASHBOARD_MAX_RAW_POINTS"} |->
                IF name = "DASHBOARD_MAX_RAW_POINTS" THEN MaxObs ELSE MaxObs - 1],
             [name \in {"DASHBOARD_MAX_RAW_POINTS"} |-> MaxObs - 1]}
    IN  \E p \in TimeseriesParams, overrides \in TimeseriesSettings, count_ok \in BOOLEAN :
            TimeseriesApiCall(p, overrides, count_ok)

SpecTimeseries == InitTimeseries /\ [][NextTimeseries]_vars

(* The limits in force at the last request *)
HourlyThreshold ==
    IF "DASHBOARD_AGG_HOURLY_THRESHOLD" \in DOMAIN api.last.overrides
    THEN api.last.overrides["DASHBOARD_AGG_HOURLY_THRESHOLD"] ELSE AGGREGATE_HOURLY_THRESHOLD

RawCeiling ==
    IF "DASHBOARD_MAX_RAW_POINTS" \in DOMAIN api.last.overrides
    THEN api.last.overrides["DASHBOARD_MAX_RAW_POINTS"] ELSE MAX_RAW_POINTS

(* The count of matching rows as the handler obtained it: 0 when the count   *)
(* query failed                                                              *)
ObtainedCount == IF api.last.count_ok THEN Cardinality(api.last.rows) ELSE 0

(* The last request named a basin and a data type *)
Served == api.last.fn = "timeseries_api" /\ api.last.response.status # 400

ResolutionAuto ==
    api.last.params.resolution = None \/ Lower(api.last.params.resolution) = Auto

(* The hour an instant falls in *)
HourOf(t) == SecondsPerHour * (t \div SecondsPerHour)

(* C25: with resolution absent or `auto`, the resolution is `hourly` when    *)
(* the count of matching rows exceeds the hourly threshold and `raw`         *)
(* otherwise; the response's resolution field is the chosen value, and when  *)
(* it is `hourly` the points are one per hour that holds a matching row,     *)
(* stamped with the start of that hour, in ascending order.                  *)
C25_AutoResolution ==
    Served /\ ResolutionAuto =>
        LET resp == api.last.response
            hours == {HourOf(o.datetime) : o \in api.last.rows}
        IN  /\ resp.data.data_count = ObtainedCount
            /\ resp.data.resolution =
                    IF ObtainedCount > HourlyThreshold THEN Hourly ELSE <<"r", "a", "w">>
            /\ ObtainedCount > HourlyThreshold =>
                    /\ resp.status = 200
                    /\ Len(resp.data.points) = Cardinality(hours)
                    /\ {resp.data.points[i].x : i \in 1..Len(resp.data.points)} =
                            {IsoFormat(h) : h \in hours}
                    /\ \A i, j \in 1..Len(resp.data.points) :
                            i < j => resp.data.points[i].x # resp.data.points[j].x

(* C25's case: the threshold is below the number of matching rows, two of    *)
(* which fall in one hour; the answer is hourly with fewer points than rows. *)
C25_Witness ==
    /\ Served /\ ResolutionAuto
    /\ api.last.count_ok
    /\ Cardinality(api.last.rows) = MaxObs
    /\ HourlyThreshold = MaxObs - 1
    /\ api.last.response.data.resolution = Hourly
    /\ Len(api.last.response.data.points) < MaxObs

(* The resolution the last request resolves to *)
ResolvedResolution ==
    IF ResolutionAuto
    THEN IF ObtainedCount > HourlyThreshold THEN Hourly ELSE <<"r", "a", "w">>
    ELSE Lower(api.last.params.resolution)

(* C26: whenever the resolution resolves to `raw`, whether asked for or      *)
(* chosen, and the count of matching rows exceeds the raw-row ceiling, the   *)
(* answer is 413 with error raw_too_large, the count and resolution `raw`,   *)
(* and no points; a raw response is given only when the count is at most the *)
(* ceiling, and no other request is refused this way.                        *)
C26_RawCeiling ==
    Served =>
        LET resp == api.last.response
        IN  /\ ResolvedResolution = <<"r", "a", "w">> /\ ObtainedCount > RawCeiling =>
                    /\ resp.status = 413
                    /\ resp.data.ok = FALSE
                    /\ resp.data.error = "raw_too_large"
                    /\ resp.data.data_count = ObtainedCount
                    /\ resp.data.resolution = <<"r", "a", "w">>
                    /\ "points" \notin DOMAIN resp.data
            /\ resp.status = 200 /\ resp.data.resolution = <<"r", "a", "w">> =>
                    /\ ObtainedCount <= RawCeiling
                    /\ resp.data.data_count = ObtainedCount
            /\ resp.status = 413 =>
                    ResolvedResolution = <<"r", "a", "w">> /\ ObtainedCount > RawCeiling

(* C26's case: `Raw` was asked for over more rows than the ceiling allows    *)
(* and the request was refused.                                              *)
C26_Witness ==
    /\ Served
    /\ api.last.params.resolution = <<"R", "a", "w">>
    /\ api.last.count_ok
    /\ Cardinality(api.last.rows) = MaxObs
    /\ RawCeiling = MaxObs - 1
    /\ api.last.response.status = 413

(* The observations of the basin and data type the last request named, in    *)
(* the 24 hours up to the request                                            *)
Trailing24h ==
    {o \in observations :
        /\ basin_id(o.basin) = api.last.params.basin_id
        /\ Lower(o.data_type) = Lower(api.last.params.data_type)
        /\ api.last.at - 24 * SecondsPerHour <= o.datetime
        /\ o.datetime <= api.last.at}

(* The last request gave a basin and a data type and nothing else *)
DefaultRequest ==
    /\ Served
    /\ api.last.params.start = None
    /\ api.last.params.end = None
    /\ api.last.params.resolution = None

(* The answer is ok with one point per observation of Trailing24h, in        *)
(* ascending order of time, each with the observation's value                *)
RawPointsOfTrailing24h ==
    LET resp == api.last.response
    IN  /\ resp.status = 200
        /\ resp.data.ok = TRUE
        /\ \E s \in Orderings(Trailing24h) :
                /\ \A i, j \in 1..Len(s) : i < j => s[i].datetime <= s[j].datetime
                /\ resp.data.points =
                        [i \in 1..Len(s) |->
                            [x |-> IsoFormat(s[i].datetime),
                             y |-> Float(s[i].value, Pow10(DecimalPlaces))]]

(* C27 as stated: a request with a basin and a data type, no start/end and   *)
(* no resolution, over at most the hourly threshold of matching rows, is     *)
(* answered ok with exactly one point per observation of the basin and data  *)
(* type in the trailing 24 hours, ascending, each with its value.            *)
C27_DefaultRawPoints ==
    DefaultRequest /\ Cardinality(Trailing24h) <= HourlyThreshold => RawPointsOfTrailing24h

(* C27, amended: the same, for at most the hourly threshold and at most the  *)
(* raw-row ceiling of matching rows.                                         *)
C27_DefaultRawPointsWithinCeiling ==
    DefaultRequest /\ Cardinality(Trailing24h) <= HourlyThreshold
        /\ Cardinality(Trailing24h) <= RawCeiling => RawPointsOfTrailing24h

(* C27's case: under the default settings, a store of MaxObs matching        *)
(* readings, the earliest exactly 24 hours old, asked for as `rainfall`.     *)
C27_Witness ==
    /\ DefaultRequest
    /\ api.last.overrides = [name \in {} |-> 0]
    /\ api.last.params.data_type = RainfallLower
    /\ Cardinality(Trailing24h) = MaxObs
    /\ Len(api.last.response.data.points) = MaxObs
    /\ api.last.response.data.points[1].x = IsoFormat(api.last.at - 24 * SecondsPerHour)
    /\ api.last.response.data.resolution = <<"r", "a", "w">>

----------------------------------------------------------------------------
(* A write and its invalidation, while requests are served *)

(* One reading is written for a basin of the fixture; then                   *)
(* invalidate_timeseries_for_basin and                                       *)
(* invalidate_upstream_for_impacted_downstream run for that basin, the       *)
(* latter with the basins it flows into, and no backend call fails.          *)
(* Requests for either basin run step by step before, between and after.     *)
InitWriteRace ==
    /\ relations = FixtureGraph
    /\ observations = {}
    /\ cache = EmptyCache
    /\ now = 0
    /\ nreq = 0
    /\ req = [r \in Reqs |-> IdleReq]
    /\ hist = [r \in Reqs |-> NoHist]
    /\ ingest = IdleIngest
    /\ api = NoApi

NextWriteRace ==
    \/ \E b \in {1, 2} : Request(1, b, Rainfall, W24h, <<"1">>, TRUE)
    \/ BfsStep(1)
    \/ BasinSum(1)
    \/ UpstreamSum(1)
    \/ CacheStore(1, TRUE)
    \/ Tick
    \/ \E b \in {1, 2} :
        /\ observations = {}
        /\ WriteObservation(Observation(b, Rainfall, 0 - SecondsPerHour, "sensor_01",
                                        FixtureValue))
    \/ \E o \in observations :
        /\ api.last = NoCall
        /\ InvalidateTimeseriesCall(basin_id(o.basin), o.data_type, TRUE,
                                    <<DOMAIN cache>>, 0, {})
    \/ \E o \in observations :
        /\ api.last.fn = "invalidate_timeseries"
        /\ InvalidateUpstreamCall(TRUE, {basin_id(d) : d \in DownstreamOf(o.basin)}, {})

SpecWriteRace == InitWriteRace /\ [][NextWriteRace]_vars

(* The write has been made and both invalidations have completed after it *)
WriteInvalidated == observations # {} /\ api.last.fn = "invalidate_upstream"

(* The basins written to *)
WrittenBasins == {o.basin : o \in observations}

(* The totals a request for basin b at depth 1 and window 24h, made at time  *)
(* t, computes from the store as it is now                                   *)
TotalsNow(b, t) ==
    LET Rows(ids) == {o \in observations :
                        /\ o.basin \in ids
                        /\ o.data_type = Rainfall
                        /\ o.datetime >= t - 24 * SecondsPerHour}
    IN  [basin_total |-> DecimalStr(OrDecimalZero(AggregateSum(Rows({b})))),
         upstream_total |-> DecimalStr(OrDecimalZero(AggregateSum(Rows(UpstreamWithin(b, 1)))))]

(* The cache holds under key k, of basin b, a live entry whose totals are    *)
(* not those of the store as it is now                                       *)
HoldsPreWrite(k, b) ==
    /\ k \in DOMAIN cache
    /\ Live(cache[k], now)
    /\ \/ cache[k].payload.basin_total # TotalsNow(b, cache[k].stored_at).basin_total
       \/ cache[k].payload.upstream_total # TotalsNow(b, cache[k].stored_at).upstream_total

(* C29: after an observation write for basin B and the completion, without   *)
(* backend error, of both invalidations for B, the cache holds no            *)
(* upstream-aggregate entry keyed on B itself, for the enumerated windows,   *)
(* depths and data types, whose basin_total was computed from B's pre-write  *)
(* observations.                                                             *)
C29_OwnAggregateInvalidated ==
    WriteInvalidated =>
        \A b \in WrittenBasins : \A k \in EnumeratedUpstreamKeys(basin_id(b)) :
            ~(/\ k \in DOMAIN cache
              /\ Live(cache[k], now)
              /\ cache[k].payload.basin_total # TotalsNow(b, cache[k].stored_at).basin_total)

(* C30: once the invalidation of a key has completed after a write, the      *)
(* cache does not hold under that key a payload computed from the store as   *)
(* it was before the write, whatever the interleaving with a request.        *)
C30_NoStaleAfterInvalidation ==
    WriteInvalidated =>
        \A b \in Basins : \A k \in EnumeratedUpstreamKeys(basin_id(b)) :
            k \in InvalidatedUpstreamKeys(api.last.downstream_list, {}) => ~HoldsPreWrite(k, b)

----------------------------------------------------------------------------
(* One query, one key *)

(* The query an upstream-aggregate entry answers: the basin, the DataType    *)
(* the name resolved to and the hours the window parsed to, as its payload   *)
(* carries them, and the depth, the last character of its key.               *)
ResolvedQuery(k) ==
    [basin_id |-> cache[k].payload.basin_id,
     data_type |-> cache[k].payload.data_type,
     hours |-> cache[k].payload.window_hours,
     depth |-> k[Len(k)]]

(* The entries of the queries an invalidation for dbid enumerates: windows   *)
(* of 24, 48 and 168 hours, depths 1 and 2, Rainfall and Temperature.        *)
EnumeratedQueryEntries(c, dbid) ==
    {k \in DOMAIN c :
        /\ StartsWith(k, UP_PREFIX)
        /\ c[k].payload.basin_id = dbid
        /\ c[k].payload.data_type \in {Rainfall, Temperature}
        /\ c[k].payload.window_hours \in {24, 48, 168}
        /\ k[Len(k)] \in {"1", "2"}}

(* C31: two upstream_aggregate requests that resolve to the same query (same *)
(* basin, same DataType under the case-insensitive lookup, same hours, same  *)
(* depth) use the same cache key: the cache never holds two entries for one  *)
(* query, and a downstream invalidation that deletes an entry of a basin     *)
(* leaves no entry of an enumerated query of that basin, whatever spelling   *)
(* the client used.                                                          *)
C31_OneKeyPerQuery ==
    /\ [](\A k1, k2 \in DOMAIN cache : ResolvedQuery(k1) = ResolvedQuery(k2) => k1 = k2)
    /\ [][\A k \in DOMAIN cache \ DOMAIN cache' :
            EnumeratedQueryEntries(cache', cache[k].payload.basin_id) = {}]_vars

----------------------------------------------------------------------------
(* Timeseries entries stored through the wrapper, then invalidated *)

InitStoreInvalidate ==
    /\ relations = FixtureGraph
    /\ observations = {}
    /\ cache = EmptyCache
    /\ now = 0
    /\ nreq = 0
    /\ req = [r \in Reqs |-> IdleReq]
    /\ hist = [r \in Reqs |-> NoHist]
    /\ ingest = IdleIngest
    /\ api = NoApi

(* set_timeseries_cache for either basin and data type, with no start       *)
(* bound, a start bound, or one that takes the key past KeyLimit; the        *)
(* invalidation of a basin by a scan that succeeds, the keyspace coming back *)
(* in one batch or after an empty one; the clock.                            *)
NextStoreInvalidate ==
    \/ \E b \in {1, 2}, dt \in {Rainfall, Temperature}, s \in {None, Start1, LongBound} :
            SetCall(TimeseriesArgs(basin_id(b), dt, s, None, Hourly), "v1", None)
    \/ \E b \in {1, 2}, dt \in {Rainfall, Temperature},
          batches \in {<<DOMAIN cache>>, <<{}, DOMAIN cache>>} :
            InvalidateTimeseriesCall(basin_id(b), dt, TRUE, batches, 0, {})
    \/ Tick

SpecStoreInvalidate == InitStoreInvalidate /\ [][NextStoreInvalidate]_vars

(* The live entries that set_timeseries_cache stored for the basin bid *)
StoredForBasin(bid) ==
    {k \in DOMAIN cache :
        /\ Live(cache[k], now)
        /\ k \in DOMAIN api.sets
        /\ api.sets[k].args.family = "timeseries"
        /\ api.sets[k].args.bid = bid}

(* C32: after invalidate_timeseries_for_basin(b, dt) has completed by a scan *)
(* that succeeded, the cache holds no entry stored through                   *)
(* set_timeseries_cache for basin b, those stored under the hashed form of a *)
(* key longer than 200 characters included.                                  *)
C32_StoredEntriesRemoved ==
    api.last.fn = "invalidate_timeseries" /\ ~api.last.fallback =>
        StoredForBasin(api.last.bid) = {}

----------------------------------------------------------------------------
(* The ingestion command's counters *)

(* Each row is read once and is skipped, pending or flushed: while the       *)
(* command runs, the rows read and those still to read add up to the file,   *)
(* the rows read are those ingested, in error or pending, and every skipped  *)
(* row is an error; at the summary nothing is left to read or pending.       *)
RowsAccounted ==
    /\ [](ingest.pc \in {"rows", "done"} =>
            /\ ingest.total = ingest.ingested + ingest.errors + Len(ingest.insert_rows)
            /\ ingest.skipped <= ingest.errors)
    /\ [](ingest.pc = "done" =>
            /\ ingest.rows = <<>>
            /\ ingest.insert_rows = <<>>
            /\ ingest.total = ingest.ingested + ingest.errors)
    /\ [][ingest.pc = "rows" =>
            ingest'.total + Len(ingest'.rows) = ingest.total + Len(ingest.rows)]_vars

(* C33 as stated: the command accounts for every CSV row exactly once: when  *)
(* it finishes total = ingested + errors and skipped <= errors, whatever     *)
(* rows were skipped and whatever batches succeeded or fell back to per-row  *)
(* upserts; every row appended to the pending batch is flushed before the    *)
(* summary, and the pending batch never holds more than batch_size rows.     *)
C33_RowsAccountedOnce ==
    /\ RowsAccounted
    /\ [](ingest.peak <= ingest.batch_size)

(* C33, amended: the same, the bound on the pending batch for a batch size   *)
(* of at least one.                                                          *)
C33_RowsAccountedOncePositiveBatch ==
    /\ RowsAccounted
    /\ [](ingest.batch_size >= 1 => ingest.peak <= ingest.batch_size)

(* C33's case: a file of MaxRows rows read to the end with full batches of   *)
(* MaxBatch, with a skipped row, a row ingested and a row whose batch failed *)
(* and whose per-row upsert failed too.                                      *)
C33_Witness ==
    /\ ingest.pc = "done"
    /\ ingest.batch_size = MaxBatch
    /\ ingest.peak = MaxBatch
    /\ ingest.total = MaxRows
    /\ ingest.skipped = 1
    /\ ingest.errors = 2
    /\ ingest.ingested = MaxRows - 2

====
